---------------------------- MODULE Spec2Model ----------------------------
(***************************************************************************)
(* A model of the essay grading pipeline of src/essay_grader.py            *)
(* (class EssayGrader).                                                    *)
(*                                                                         *)
(* Texts are sequences of one-character strings.  A Chinese character of   *)
(* the source is written as one symbol named by its pinyin ("zong" for     *)
(* U+603B and so on), so that a label of the reply template has as many    *)
(* symbols in the model as it has characters in the source.  A fixed       *)
(* message of the program (a feedback sentence) is a one-symbol text       *)
(* naming the message: the program never looks inside those.               *)
(*                                                                         *)
(* Ratios are kept exact: a float r = a/b compared with a decimal literal  *)
(* is compared by cross-multiplication, and round(r, 3) is the integer     *)
(* number of thousandths (Round3).                                         *)
(***************************************************************************)
EXTENDS Integers, Sequences, FiniteSets, TLC

(***************************************************************************)
(* Bounds of the model.                                                    *)
(***************************************************************************)
\* the longest match list the grammar service returns
MaxMatches == 12
\* the most words of a generated essay
MaxWords == 2
\* the most lines of a reply the parser's loop is followed through
MaxLines == 3
\* the most characters of a text of whitespace only
MaxBlank == 2
\* the most queries put to a constructed workflow
MaxQueries == 3

(***************************************************************************)
(* Python values.                                                          *)
(***************************************************************************)
\* None, and the value of a local variable that is not assigned yet
None == <<>>

\* dict.get(key, default)
Get(d, key, default) == IF key \in DOMAIN d THEN d[key] ELSE default

Max(a, b) == IF a >= b THEN a ELSE b
Min(a, b) == IF a <= b THEN a ELSE b

(***************************************************************************)
(* str: strip, split, lower, startswith, replace.                          *)
(***************************************************************************)
\* the whitespace characters of the model's alphabet
Whitespace == {" ", "\n", "\t"}

IsSpace(c) == c \in Whitespace

RECURSIVE LStrip(_)
LStrip(s) ==
    IF s = <<>> THEN <<>>
    ELSE IF IsSpace(Head(s)) THEN LStrip(Tail(s)) ELSE s

RECURSIVE RStrip(_)
RStrip(s) ==
    IF s = <<>> THEN <<>>
    ELSE IF IsSpace(s[Len(s)]) THEN RStrip(SubSeq(s, 1, Len(s) - 1)) ELSE s

\* str.strip()
Strip(s) == RStrip(LStrip(s))

\* the first run of non-separator characters of s, and what follows it
RECURSIVE TakeUntil(_, _)
TakeUntil(s, seps) ==
    IF s = <<>> \/ Head(s) \in seps THEN <<>>
    ELSE <<Head(s)>> \o TakeUntil(Tail(s), seps)

\* str.split(): the maximal runs of non-whitespace characters, in order
RECURSIVE SplitWhitespace(_)
SplitWhitespace(s) ==
    LET t == LStrip(s) IN
    IF t = <<>> THEN <<>>
    ELSE LET w == TakeUntil(t, Whitespace) IN
         <<w>> \o SplitWhitespace(SubSeq(t, Len(w) + 1, Len(t)))

\* str.split('\n'): the pieces between the newlines, empty pieces included
RECURSIVE SplitLines(_)
SplitLines(s) ==
    LET w == TakeUntil(s, {"\n"}) IN
    IF Len(w) = Len(s) THEN <<w>>
    ELSE <<w>> \o SplitLines(SubSeq(s, Len(w) + 2, Len(s)))

UpperCase == <<"A","B","C","D","E","F","G","H","I","J","K","L","M",
               "N","O","P","Q","R","S","T","U","V","W","X","Y","Z">>
LowerCase == <<"a","b","c","d","e","f","g","h","i","j","k","l","m",
               "n","o","p","q","r","s","t","u","v","w","x","y","z">>

LowerChar(c) ==
    IF \E i \in 1..Len(UpperCase) : UpperCase[i] = c
    THEN LowerCase[CHOOSE i \in 1..Len(UpperCase) : UpperCase[i] = c]
    ELSE c

\* str.lower()
Lower(s) == [i \in 1..Len(s) |-> LowerChar(s[i])]

\* str.startswith(prefix)
StartsWith(s, prefix) ==
    Len(s) >= Len(prefix) /\ SubSeq(s, 1, Len(prefix)) = prefix

\* str.startswith(tuple of prefixes)
StartsWithAny(s, prefixes) == \E p \in prefixes : StartsWith(s, p)

\* str.replace(old, ""): every occurrence of old, left to right, is removed
RECURSIVE RemoveAll(_, _)
RemoveAll(s, old) ==
    IF s = <<>> THEN <<>>
    ELSE IF StartsWith(s, old)
         THEN RemoveAll(SubSeq(s, Len(old) + 1, Len(s)), old)
         ELSE <<Head(s)>> \o RemoveAll(Tail(s), old)

\* set(list)
ToSet(s) == {s[i] : i \in 1..Len(s)}

(***************************************************************************)
(* The reply format of the grading template and its labels.                *)
(***************************************************************************)
LabelOverallScore == <<"zong", "ti", "ping", "fen", ":">>
LabelGrammarScore == <<"yu", "fa", "de", "fen", ":">>
LabelVocabularyScore == <<"ci", "hui", "de", "fen", ":">>
LabelContentScore == <<"nei", "rong", "de", "fen", ":">>
LabelOverallFeedback == <<"zong", "ti", "ping", "jia", ":">>
LabelStrengths == <<"1", ".", " ", "you", "dian", ":">>
LabelWeaknesses ==
    <<"2", ".", " ", "xu", "yao", "gai", "jin", "de", "di", "fang", ":">>
LabelSuggestions == <<"3", ".", " ", "ju", "ti", "jian", "yi", ":">>

\* only the numbered prefixes kept in the tuples of lines 239 and 248
SectionBreakPrefixesNumbered ==
    { <<"1", ".">>, <<"2", ".">>, <<"3", ".">> }

\* the tuple of prefixes of lines 239 and 248
SectionBreakPrefixes ==
    { <<"1", ".">>, <<"2", ".">>, <<"3", ".">>, <<"zong", "ti">>,
      <<"yu", "fa">>, <<"ci", "hui">>, <<"nei", "rong">> }

DigitChars == <<"0", "1", "2", "3", "4", "5", "6", "7", "8", "9">>

IsDigit(c) == \E i \in 1..10 : DigitChars[i] = c

DigitValue(c) == (CHOOSE i \in 1..10 : DigitChars[i] = c) - 1

\* a pattern (\d)/N in place of (\d+)/N: the group is the last digit alone
ParseIntOneDigit(ds) == IF ds = <<>> THEN 0 ELSE DigitValue(ds[Len(ds)])

\* int(text) of a run of decimal digits
RECURSIVE ParseInt(_)
ParseInt(ds) ==
    IF ds = <<>> THEN 0
    ELSE 10 * ParseInt(SubSeq(ds, 1, Len(ds) - 1)) + DigitValue(ds[Len(ds)])

\* the longest run of digits s begins with
RECURSIVE DigitRun(_)
DigitRun(s) ==
    IF s = <<>> \/ ~IsDigit(Head(s)) THEN <<>>
    ELSE <<Head(s)>> \o DigitRun(Tail(s))

\* the value of "no match" of re.search
NoMatch == [matched |-> FALSE, group1 |-> 0]

\* re.search(r'(\d+)/<denominator>', s): the leftmost run of digits that is
\* followed by "/" and the denominator's digits.  A match cannot begin
\* inside a run of digits unless one begins at the start of that run, so the
\* search goes run by run.
RECURSIVE SearchScore(_, _)
SearchScore(s, denominator) ==
    IF s = <<>> THEN NoMatch
    ELSE IF IsDigit(Head(s))
         THEN LET run == DigitRun(s)
                  rest == SubSeq(s, Len(run) + 1, Len(s))
              IN  IF StartsWith(rest, <<"/">> \o denominator)
                  THEN [matched |-> TRUE, group1 |-> ParseInt(run)]
                  ELSE SearchScore(rest, denominator)
         ELSE SearchScore(Tail(s), denominator)

(***************************************************************************)
(* _parse_llm_response: the parser of the completion service's reply.      *)
(***************************************************************************)
\* the result dictionary the parser starts from
EmptyParseResult ==
    [ overall_score |-> 0, grammar_score |-> 0, vocabulary_score |-> 0,
      content_score |-> 0, overall_feedback |-> <<>>,
      strengths |-> <<>>, weaknesses |-> <<>>, suggestions |-> <<>> ]

\* current_section starting as a section in place of None
ParseStartInSection ==
    [result |-> EmptyParseResult, current_section |-> "suggestions"]

\* the state of the scan before its first line
ParseStart == [result |-> EmptyParseResult, current_section |-> "None"]

\* a score line: the field is assigned when the pattern matches
ParseScoreLine(st, line, field, denominator) ==
    LET m == SearchScore(line, denominator) IN
    IF m.matched
    THEN [st EXCEPT !.result = [@ EXCEPT ![field] = m.group1]]
    ELSE st

\* a section-start line whose text goes to the section active before it
ParseSectionLineIntoActive(st, line, label, section) ==
    LET content == Strip(RemoveAll(line, label))
        target == IF st.current_section # "None"
                  THEN st.current_section ELSE section
    IN  [ current_section |-> section,
          result |-> IF content # <<>>
                     THEN [st.result EXCEPT ![target] = Append(@, content)]
                     ELSE st.result ]

\* a section-start line: the section becomes active, and the text after the
\* label, when there is some, is its next entry
ParseSectionLine(st, line, label, section) ==
    LET content == Strip(RemoveAll(line, label)) IN
    [ current_section |-> section,
      result |-> IF content # <<>>
                 THEN [st.result EXCEPT ![section] = Append(@, content)]
                 ELSE st.result ]

\* one pass of the loop body over one line
ParseStep(st, rawline) ==
    LET line == Strip(rawline) IN
    IF StartsWith(line, LabelOverallScore)
    THEN ParseScoreLine(st, line, "overall_score", <<"1", "0", "0">>)
    ELSE IF StartsWith(line, LabelGrammarScore)
    THEN ParseScoreLine(st, line, "grammar_score", <<"3", "0">>)
    ELSE IF StartsWith(line, LabelVocabularyScore)
    THEN ParseScoreLine(st, line, "vocabulary_score", <<"3", "0">>)
    ELSE IF StartsWith(line, LabelContentScore)
    THEN ParseScoreLine(st, line, "content_score", <<"4", "0">>)
    ELSE IF StartsWith(line, LabelOverallFeedback)
    THEN [st EXCEPT !.result.overall_feedback =
                        Strip(RemoveAll(line, LabelOverallFeedback))]
    ELSE IF StartsWith(line, LabelStrengths)
    THEN ParseSectionLine(st, line, LabelStrengths, "strengths")
    ELSE IF StartsWith(line, LabelWeaknesses)
    THEN ParseSectionLine(st, line, LabelWeaknesses, "weaknesses")
    ELSE IF StartsWith(line, LabelSuggestions)
    THEN ParseSectionLine(st, line, LabelSuggestions, "suggestions")
    ELSE IF /\ st.current_section # "None"
            /\ line # <<>>
            /\ ~StartsWithAny(line, SectionBreakPrefixes)
    THEN [st EXCEPT !.result[st.current_section] = Append(@, line)]
    ELSE IF StartsWithAny(line, SectionBreakPrefixes)
    THEN [st EXCEPT !.current_section = "None"]
    ELSE st

\* the loop over the lines
RECURSIVE ParseLines(_, _)
ParseLines(st, lines) ==
    IF lines = <<>> THEN st
    ELSE ParseLines(ParseStep(st, Head(lines)), Tail(lines))

\* _parse_llm_response(response_text).  No operation of the body raises on
\* a str, so the except branch is not taken.
ParseLlmResponse(response_text) ==
    ParseLines(ParseStart, SplitLines(Strip(response_text))).result

(***************************************************************************)
(* check_grammar(text, return_dict=True): the grammar service's adapter.   *)
(***************************************************************************)
RECURSIVE IntToText(_)
\* str(n) of a natural number, as formatted into an f-string
IntToText(n) ==
    IF n < 10 THEN <<DigitChars[n + 1]>>
    ELSE IntToText(n \div 10) \o <<DigitChars[(n % 10) + 1]>>

MsgGrammarDisabled == <<"yufa jiancha gongju wei qiyong">>
MsgNoGrammarErrors == <<"wei faxian yufa cuowu">>
MsgGrammarFound(n) == <<"faxian", " ">> \o IntToText(n) \o <<" ", "ge yufa cuowu">>
MsgGrammarFailed(e) == <<"yufa jiancha shibai", ":", " ">> \o e

\* the record built from one match of the service
ErrorInfo(match) ==
    [ error |-> match.message,
      suggestion |-> IF match.replacements # <<>>
                     THEN match.replacements[1] ELSE <<>>,
      context |-> match.context,
      offset |-> match.offset,
      length |-> match.errorLength ]

\* matches in place of matches[:10]
GrammarErrorsUntruncated(matches) ==
    [i \in 1..Len(matches) |-> ErrorInfo(matches[i])]

\* matches[:10] turned into records, in the service's order
GrammarErrors(matches) ==
    [i \in 1..Min(Len(matches), 10) |-> ErrorInfo(matches[i])]

\* check_grammar without the try of line 271: the service's exception leaves
\* the method
CheckGrammarUncaught(grammar_tool, text, outcome) ==
    IF grammar_tool = "None"
    THEN [ raised |-> FALSE,
           value |-> [errors |-> <<>>, error_count |-> 0,
                      message |-> MsgGrammarDisabled] ]
    ELSE IF outcome.kind = "raise"
    THEN [ raised |-> TRUE, value |-> None ]
    ELSE IF outcome.matches = <<>>
    THEN [ raised |-> FALSE,
           value |-> [errors |-> <<>>, error_count |-> 0,
                      message |-> MsgNoGrammarErrors] ]
    ELSE [ raised |-> FALSE,
           value |-> [errors |-> GrammarErrors(outcome.matches),
                      error_count |-> Len(outcome.matches),
                      message |-> MsgGrammarFound(Len(outcome.matches))] ]

\* check_grammar: grammar_tool is the grader's field, outcome what the
\* service's check(text) does when it is called: it raises an exception with
\* a message, or returns a list of matches.  The value is the dictionary
\* returned, with raised = FALSE: every exception of the call is caught.
CheckGrammar(grammar_tool, text, outcome) ==
    IF grammar_tool = "None"
    THEN [ raised |-> FALSE,
           value |-> [errors |-> <<>>, error_count |-> 0,
                      message |-> MsgGrammarDisabled] ]
    ELSE IF outcome.kind = "raise"
    THEN [ raised |-> FALSE,
           value |-> [errors |-> <<>>, error_count |-> 0,
                      message |-> MsgGrammarFailed(outcome.message)] ]
    ELSE IF outcome.matches = <<>>
    THEN [ raised |-> FALSE,
           value |-> [errors |-> <<>>, error_count |-> 0,
                      message |-> MsgNoGrammarErrors] ]
    ELSE [ raised |-> FALSE,
           value |-> [errors |-> GrammarErrors(outcome.matches),
                      error_count |-> Len(outcome.matches),
                      message |-> MsgGrammarFound(Len(outcome.matches))] ]

(***************************************************************************)
(* analyze_vocabulary(text, return_dict=True): the lexical analyzer.       *)
(***************************************************************************)
\* round(a / b, 3) in thousandths, for 0 <= a and 0 < b: the nearest
\* thousandth, a tie going to the even one (a tie needs b to be a multiple of
\* 16, and a/b is then a float exactly when b is 16 times a power of two)
Round3(a, b) ==
    LET q == (1000 * a) \div b
        r == 2 * ((1000 * a) % b)
    IN  IF r > b THEN q + 1
        ELSE IF r < b THEN q
        ELSE IF q % 2 = 0 THEN q ELSE q + 1

basic_words ==
    { <<"i">>, <<"y", "o", "u">>, <<"h", "e">>, <<"s", "h", "e">>, <<"i", "t">>, <<"w", "e">>, <<"t", "h", "e", "y">>,
      <<"i", "s">>, <<"a", "m">>, <<"a", "r", "e">>, <<"w", "a", "s">>, <<"w", "e", "r", "e">>, <<"b", "e">>, <<"b", "e", "e", "n">>,
      <<"h", "a", "v", "e">>, <<"h", "a", "s">>, <<"h", "a", "d">>, <<"d", "o">>, <<"d", "o", "e", "s">>, <<"d", "i", "d">>,
      <<"a">>, <<"a", "n">>, <<"t", "h", "e">>, <<"a", "n", "d">>, <<"b", "u", "t">>, <<"o", "r">>, <<"i", "n">>,
      <<"o", "n">>, <<"a", "t">>, <<"t", "o">>, <<"f", "o", "r">>, <<"o", "f">>, <<"w", "i", "t", "h">>, <<"b", "y">> }

MsgEmptyText == <<"wenben wei kong">>
MsgEssayShort == <<"zuowen jiao duan">>
MsgEssayRich == <<"zuowen neirong fengfu">>
MsgEssayLengthFine == <<"zuowen changdu heshi">>
MsgRepetitive == <<"cihui chongfu jiao duo">>
MsgDiverse == <<"cihui duoyangxing hen hao">>
MsgDiversityFair == <<"cihui duoyangxing yiban">>
MsgUseAdvanced == <<"keyi changshi shiyong geng duo gaoji cihui">>
MsgAdvancedGood == <<"gaoji cihui shiyong lianghao">>

\* " ".join(parts)
RECURSIVE JoinWith(_, _)
JoinWith(parts, sep) ==
    IF parts = <<>> THEN <<>>
    ELSE IF Len(parts) = 1 THEN parts[1]
    ELSE parts[1] \o sep \o JoinWith(Tail(parts), sep)

\* feedback whose length sentence changes at 30 and 200 inclusive
VocabularyFeedbackPartsInclusive(word_count, unique_count, advanced_count) ==
    << IF word_count <= 30 THEN MsgEssayShort
       ELSE IF word_count >= 200 THEN MsgEssayRich
       ELSE MsgEssayLengthFine >>
    \o
    << IF 10 * unique_count < 4 * word_count THEN MsgRepetitive
       ELSE IF 10 * unique_count > 7 * word_count THEN MsgDiverse
       ELSE MsgDiversityFair >>
    \o
    ( IF 10 * advanced_count < unique_count THEN <<MsgUseAdvanced>>
      ELSE IF 10 * advanced_count > 3 * unique_count THEN <<MsgAdvancedGood>>
      ELSE <<>> )

\* the feedback sentences, from the unrounded ratios
\* unique_count / word_count and advanced_count / unique_count
VocabularyFeedbackParts(word_count, unique_count, advanced_count) ==
    << IF word_count < 30 THEN MsgEssayShort
       ELSE IF word_count > 200 THEN MsgEssayRich
       ELSE MsgEssayLengthFine >>
    \o
    << IF 10 * unique_count < 4 * word_count THEN MsgRepetitive
       ELSE IF 10 * unique_count > 7 * word_count THEN MsgDiverse
       ELSE MsgDiversityFair >>
    \o
    ( IF 10 * advanced_count < unique_count THEN <<MsgUseAdvanced>>
      ELSE IF 10 * advanced_count > 3 * unique_count THEN <<MsgAdvancedGood>>
      ELSE <<>> )

\* an analyzer without the "if not words" branch, the ratios of no words
\* taken as 0
VocabularyReportNoSentinel(word_count, unique_count, advanced_count) ==
    [ word_count |-> word_count,
      unique_words |-> unique_count,
      lexical_diversity |-> IF word_count > 0
                            THEN Round3(unique_count, word_count) ELSE 0,
      advanced_ratio |-> IF unique_count > 0
                         THEN Round3(advanced_count, unique_count) ELSE 0,
      feedback |-> JoinWith(VocabularyFeedbackParts(
                       word_count, unique_count, advanced_count),
                       <<" ">>) ]

\* the dictionary analyze_vocabulary returns for a text of word_count words,
\* unique_count of them distinct and advanced_count of those not basic:
\* lexical_diversity and advanced_ratio are in thousandths; common_words is
\* not modelled (nothing reads it)
VocabularyReport(word_count, unique_count, advanced_count) ==
    IF word_count = 0
    THEN [ word_count |-> 0, unique_words |-> 0,
           lexical_diversity |-> 0, feedback |-> MsgEmptyText ]
    ELSE [ word_count |-> word_count,
           unique_words |-> unique_count,
           lexical_diversity |-> Round3(unique_count, word_count),
           advanced_ratio |-> IF unique_count > 0
                              THEN Round3(advanced_count, unique_count) ELSE 0,
           feedback |-> JoinWith(VocabularyFeedbackParts(
                            word_count, unique_count, advanced_count),
                            <<" ">>) ]

\* an analyzer that does not lower the case of the words
AnalyzeVocabularyCaseKept(text) ==
    LET words == SplitWhitespace(text)
        unique_words == ToSet(words)
    IN  VocabularyReport(Len(words), Cardinality(unique_words),
                         Cardinality(unique_words \ basic_words))

\* analyze_vocabulary(text, return_dict=True)
AnalyzeVocabulary(text) ==
    LET tokens == SplitWhitespace(text)
        words == [i \in 1..Len(tokens) |-> Lower(tokens[i])]
        unique_words == ToSet(words)
    IN  VocabularyReport(Len(words), Cardinality(unique_words),
                         Cardinality(unique_words \ basic_words))

(***************************************************************************)
(* _calculate_final_scores: the score reconciler.                          *)
(***************************************************************************)
\* a reconciler whose thresholds include their bounds
GrammarAdjustedInclusive(grammar, grammar_error_count) ==
    IF grammar_error_count >= 10 THEN Max(0, grammar - 8)
    ELSE IF grammar_error_count >= 5 THEN Max(0, grammar - 5)
    ELSE IF grammar_error_count >= 2 THEN Max(0, grammar - 3)
    ELSE grammar

\* a reconciler that takes the last penalty for every report, that of a
\* missing or failed service included
GrammarAdjustedFromZero(grammar, grammar_error_count) ==
    IF grammar_error_count > 10 THEN Max(0, grammar - 8)
    ELSE IF grammar_error_count > 5 THEN Max(0, grammar - 5)
    ELSE IF grammar_error_count >= 0 THEN Max(0, grammar - 3)
    ELSE grammar

\* the grammar score after the penalty for the grammar service's error count
GrammarAdjusted(grammar, grammar_error_count) ==
    IF grammar_error_count > 10 THEN Max(0, grammar - 8)
    ELSE IF grammar_error_count > 5 THEN Max(0, grammar - 5)
    ELSE IF grammar_error_count > 2 THEN Max(0, grammar - 3)
    ELSE grammar

\* a reconciler that does not cap the bonus
VocabularyAdjustedUncapped(vocabulary, lexical_diversity) ==
    IF lexical_diversity < 300 THEN Max(0, vocabulary - 5)
    ELSE IF lexical_diversity > 600 THEN vocabulary + 3
    ELSE vocabulary

\* the vocabulary score after the adjustment for the lexical diversity
\* (in thousandths: the literals 0.3 and 0.6 are 300 and 600)
VocabularyAdjusted(vocabulary, lexical_diversity) ==
    IF lexical_diversity < 300 THEN Max(0, vocabulary - 5)
    ELSE IF lexical_diversity > 600 THEN Min(30, vocabulary + 3)
    ELSE vocabulary

\* an overall score that is the plain sum
OverallOfUndamped(grammar, vocabulary, content) ==
    grammar + vocabulary + content

\* int((grammar + vocabulary + content) * 0.98): for every sum from 0 to
\* 200000 the float product truncates to the floor of sum * 98 / 100
OverallOf(grammar, vocabulary, content) ==
    ((grammar + vocabulary + content) * 98) \div 100

\* a reconciler that keeps the rubric's overall score
FinalScoresRubricOverall(llm_result, grammar_results, vocabulary_results) ==
    [ overall |-> Get(llm_result, "overall_score", 0),
      grammar |-> GrammarAdjusted(Get(llm_result, "grammar_score", 0),
                                  Get(grammar_results, "error_count", 0)),
      vocabulary |->
          VocabularyAdjusted(Get(llm_result, "vocabulary_score", 0),
                             Get(vocabulary_results, "lexical_diversity", 0)),
      content |-> Get(llm_result, "content_score", 0) ]

\* the dictionary _calculate_final_scores returns
FinalScores(llm_result, grammar_results, vocabulary_results) ==
    LET grammar == GrammarAdjusted(Get(llm_result, "grammar_score", 0),
                                   Get(grammar_results, "error_count", 0))
        vocabulary ==
            VocabularyAdjusted(Get(llm_result, "vocabulary_score", 0),
                               Get(vocabulary_results, "lexical_diversity", 0))
        content == Get(llm_result, "content_score", 0)
    IN  [ overall |-> OverallOf(grammar, vocabulary, content),
          grammar |-> grammar,
          vocabulary |-> vocabulary,
          content |-> content ]

\* a reconciler that writes the adjusted scores back into llm_result
ArgumentsAfterCalculateInPlace(llm_result, grammar_results, vocabulary_results) ==
    LET scores == FinalScores(llm_result, grammar_results, vocabulary_results)
    IN  [ llm_result |-> [llm_result EXCEPT
                            !.grammar_score = scores.grammar,
                            !.vocabulary_score = scores.vocabulary],
          grammar_results |-> grammar_results,
          vocabulary_results |-> vocabulary_results ]

\* the three dictionaries passed to _calculate_final_scores, as they are
\* when it returns: it reads them with get() into locals and assigns only
\* the locals
ArgumentsAfterCalculate(llm_result, grammar_results, vocabulary_results) ==
    [ llm_result |-> llm_result,
      grammar_results |-> grammar_results,
      vocabulary_results |-> vocabulary_results ]

(***************************************************************************)
(* The fixed results.                                                      *)
(***************************************************************************)
MsgEssayTooShort == <<"zuowen neirong guo duan, qing renzhen xiezuo">>
MsgWriteTwentyWords == <<"qing xiechu zhishao 20 ge danci de zuowen">>
MsgContentTooShort == <<"neirong guo duan">>
MsgNoDetailedFeedback == <<"pigai xitong zanshi wufa tigong xiangxi fankui">>
MsgCheckGrammar == <<"qing jiancha jiben yufa cuowu">>
MsgVaryVocabulary == <<"changshi shiyong geng duoyang de cihui">>
MsgStayOnTopic == <<"quebao neirong jinkou timu yaoqiu">>

\* a fixed result with the request to write more filed under strengths
EmptyEssayResultMisfiled ==
    [ overall_score |-> 0, grammar_score |-> 0, vocabulary_score |-> 0,
      content_score |-> 0,
      overall_feedback |-> MsgEssayTooShort,
      grammar_errors |-> <<>>,
      suggestions |-> <<>>,
      strengths |-> <<MsgWriteTwentyWords>>,
      weaknesses |-> <<MsgContentTooShort>>,
      word_count |-> 0,
      character_count |-> 0 ]

\* _get_empty_essay_result()
EmptyEssayResult ==
    [ overall_score |-> 0, grammar_score |-> 0, vocabulary_score |-> 0,
      content_score |-> 0,
      overall_feedback |-> MsgEssayTooShort,
      grammar_errors |-> <<>>,
      suggestions |-> <<MsgWriteTwentyWords>>,
      strengths |-> <<>>,
      weaknesses |-> <<MsgContentTooShort>>,
      word_count |-> 0,
      character_count |-> 0 ]

\* _get_default_grading_result()
DefaultGradingResult ==
    [ overall_score |-> 60, grammar_score |-> 20, vocabulary_score |-> 20,
      content_score |-> 20,
      overall_feedback |-> MsgNoDetailedFeedback,
      suggestions |-> <<MsgCheckGrammar, MsgVaryVocabulary, MsgStayOnTopic>>,
      strengths |-> <<>>,
      weaknesses |-> <<>> ]

(***************************************************************************)
(* _grade_with_llm and the steps of grade_essay.                           *)
(***************************************************************************)
\* _grade_with_llm without its try: the service's exception leaves it
GradeWithLlmUncaught(outcome) ==
    IF outcome.kind = "raise"
    THEN [raised |-> TRUE, value |-> None]
    ELSE [raised |-> FALSE, value |-> ParseLlmResponse(outcome.text)]

\* _grade_with_llm returning the parser's empty result when the service raises
GradeWithLlmEmptyOnError(outcome) ==
    IF outcome.kind = "raise"
    THEN [raised |-> FALSE, value |-> EmptyParseResult]
    ELSE [raised |-> FALSE, value |-> ParseLlmResponse(outcome.text)]

\* _grade_with_llm: outcome is what grading_chain.run does, it raises or
\* returns a text.  raised = FALSE: the except clause catches the exception
\* and the default result is returned.
GradeWithLlm(outcome) ==
    IF outcome.kind = "raise"
    THEN [raised |-> FALSE, value |-> DefaultGradingResult]
    ELSE [raised |-> FALSE, value |-> ParseLlmResponse(outcome.text)]

\* a basic check on the length of the essay as submitted
TooShortUntrimmed(essay_text) == essay_text = <<>> \/ Len(essay_text) < 10

\* a basic check that also rejects 10 characters
TooShortInclusive(essay_text) ==
    essay_text = <<>> \/ Len(Strip(essay_text)) <= 10

\* the condition of the basic check of grade_essay
TooShort(essay_text) == essay_text = <<>> \/ Len(Strip(essay_text)) < 10

\* a report whose counts are taken of the trimmed essay
AssembleResultTrimmed(essay_text, prompt, llm, grammar, vocabulary, scores) ==
    [ essay |-> Strip(essay_text),
      prompt_title |-> Get(prompt, "title", <<"Unknown">>),
      overall_score |-> scores["overall"],
      grammar_score |-> scores["grammar"],
      vocabulary_score |-> scores["vocabulary"],
      content_score |-> scores["content"],
      overall_feedback |-> Get(llm, "overall_feedback", <<>>),
      grammar_errors |-> Get(grammar, "errors", <<>>),
      vocabulary_feedback |-> Get(vocabulary, "feedback", <<>>),
      suggestions |-> Get(llm, "suggestions", <<>>),
      strengths |-> Get(llm, "strengths", <<>>),
      weaknesses |-> Get(llm, "weaknesses", <<>>),
      word_count |-> Len(SplitWhitespace(essay_text)),
      character_count |-> Len(Strip(essay_text)) ]

\* the result dictionary grade_essay builds on the normal path
AssembleResult(essay_text, prompt, llm, grammar, vocabulary, scores) ==
    [ essay |-> essay_text,
      prompt_title |-> Get(prompt, "title", <<"Unknown">>),
      overall_score |-> scores["overall"],
      grammar_score |-> scores["grammar"],
      vocabulary_score |-> scores["vocabulary"],
      content_score |-> scores["content"],
      overall_feedback |-> Get(llm, "overall_feedback", <<>>),
      grammar_errors |-> Get(grammar, "errors", <<>>),
      vocabulary_feedback |-> Get(vocabulary, "feedback", <<>>),
      suggestions |-> Get(llm, "suggestions", <<>>),
      strengths |-> Get(llm, "strengths", <<>>),
      weaknesses |-> Get(llm, "weaknesses", <<>>),
      word_count |-> Len(SplitWhitespace(essay_text)),
      character_count |-> Len(essay_text) ]

(***************************************************************************)
(* The inputs: essays, prompts, and what the two services do.              *)
(***************************************************************************)
\* the words of the generated essays
EssayVocabulary ==
    { <<"a", "m">>, <<"H", "a", "p", "p", "y">>, <<"h", "a", "p", "p", "y">> }

\* the scenario essay of the specification's section 8
FamilyEssay ==
    << "M", "y", " ", "f", "a", "m", "i", "l", "y", " ", "i", "s", " ",
       "v", "e", "r", "y", " ", "n", "i", "c", "e", ".", " ", "I", " ",
       "h", "a", "v", "e", " ", "a", " ", "f", "a", "t", "h", "e", "r",
       " ", "a", "n", "d", " ", "a", " ", "m", "o", "t", "h", "e", "r",
       "." >>

\* essays with a lexical diversity of 1/4, 3/10 and 3/5
RepetitiveEssay == <<"t", "h", "e", " ", "t", "h", "e", " ", "t", "h", "e", " ", "t", "h", "e">>
ThreeOfTenEssay == << "g", "o", " ", "u", "p", " ", "g", "o", " ", "g",
                      "o", " ", "g", "o", " ", "g", "o", " ", "o", "n",
                      " ", "g", "o", " ", "g", "o", " ", "g", "o" >>
ThreeOfFiveEssay == <<"I", " ", "a", "m", " ", "I", " ", "a", "m", " ", "s", "o">>

\* essays of 9 and of 10 characters between the surrounding whitespace
NineCharEssay == <<" ", "I", " ", "a", "m", " ", "h", "e", "r", "e", "\t">>
TenCharEssay == <<"I", " ", "a", "m", " ", "h", "a", "p", "p", "y">>

SampleEssays ==
    { FamilyEssay, RepetitiveEssay, ThreeOfTenEssay, ThreeOfFiveEssay,
      NineCharEssay, TenCharEssay }

\* up to MaxWords words separated by one space, bare or with whitespace around
GeneratedEssays ==
    LET bodies == { JoinWith(ws, <<" ">>) :
                      ws \in UNION { [1..k -> EssayVocabulary] : k \in 0..MaxWords } }
    IN  bodies \cup { <<" ">> \o b \o <<"\n">> : b \in bodies }

Essays == SampleEssays \cup GeneratedEssays

\* prompt_info: a prompt of the knowledge base, and a dictionary without title
PromptInfos ==
    { [title |-> <<"My Family">>, prompt |-> <<"Write about your family.">>],
      [prompt |-> <<"Write about your family.">>] }

\* a reply in the format the grading template asks for
TemplateResponse(overall, grammar, vocabulary, content, feedback, strength, weakness, suggestion) ==
    JoinWith(
      << LabelOverallScore \o <<" ">> \o IntToText(overall) \o <<"/", "1", "0", "0">>,
         LabelGrammarScore \o <<" ">> \o IntToText(grammar) \o <<"/", "3", "0">>,
         LabelVocabularyScore \o <<" ">> \o IntToText(vocabulary) \o <<"/", "3", "0">>,
         LabelContentScore \o <<" ">> \o IntToText(content) \o <<"/", "4", "0">>,
         <<>>,
         LabelOverallFeedback \o <<" ">> \o feedback,
         <<>>,
         <<"ju", "ti", "fan", "kui", ":">>,
         LabelStrengths \o <<" ">> \o strength,
         LabelWeaknesses \o <<" ">> \o weakness,
         LabelSuggestions \o <<" ">> \o suggestion >>,
      <<"\n">>)

\* the score quadruples of the replies: the scenario's, the round trip's,
\* scores at the top and at the bottom of their ranges, and scores above the
\* denominators
ResponseScores ==
    { <<70, 20, 20, 30>>, <<85, 25, 24, 36>>, <<98, 30, 29, 40>>,
      <<9, 2, 3, 5>>, <<120, 45, 31, 50>> }

\* the well-formed reply with the scores q
ReplyWith(q) ==
    TemplateResponse(q[1], q[2], q[3], q[4], <<"G", "o", "o", "d", ".">>,
                     <<"c", "l", "e", "a", "r">>, <<"s", "h", "o", "r", "t">>,
                     <<"r", "e", "a", "d">>)

Responses ==
    { ReplyWith(q) : q \in ResponseScores }
    \cup { << "S", "o", "r", "r", "y", ",", " ", "I", " ", "c", "a",
               "n", "n", "o", "t", " ", "g", "r", "a", "d", "e", " ",
               "t", "h", "i", "s", "." >> }

\* what grading_chain.run does
CompletionOutcomes ==
    {[kind |-> "raise"]} \cup { [kind |-> "text", text |-> t] : t \in Responses }

\* the i-th match of the grammar service's list
Match(i) ==
    [ message |-> <<"rule", " ">> \o IntToText(i),
      replacements |-> IF i % 2 = 1
                       THEN << <<"fix", " ">> \o IntToText(i), <<"alt">> >>
                       ELSE <<>>,
      context |-> <<"context", " ">> \o IntToText(i),
      offset |-> i - 1,
      errorLength |-> 1 ]

MatchList(n) == [i \in 1..n |-> Match(i)]

\* what grammar_tool.check does
GrammarOutcomes ==
    {[kind |-> "raise", message |-> <<"connection refused">>]}
    \cup { [kind |-> "matches", matches |-> MatchList(n)] : n \in 0..MaxMatches }

(***************************************************************************)
(* The state: one grader and one call of grade_essay on it.                *)
(***************************************************************************)
VARIABLES
    grammar_tool,        \* the grader's field: "None" or "LanguageTool"
    essay,               \* the argument essay
    prompt_info,         \* the argument prompt_info
    pc,                  \* where the call is
    llm_result,          \* the locals of grade_essay, None until assigned
    grammar_results,
    vocabulary_results,
    final_scores,
    result,              \* what grade_essay returned, None until it returns
    llm_outcome,         \* what the completion service did, None until called
    grammar_outcome,     \* what the grammar service did, None until called
    calls,               \* how often each collaborator has been called
    first_call,          \* the reconciler's first call: its arguments and its value
    lines_read,          \* the parser's loop: the lines it has gone through
    parse_state,         \* result and current_section after those lines
    prev_state,          \* result and current_section before the last of them
    remaining,           \* the lines of the reply the loop has yet to read
    word_stats,          \* the analyzer's locals: its three counts of words
    other_call,          \* the locals of a second call of grade_essay
    analyses_done,       \* the analyses that have returned, in that order
    workflow             \* an EssayAgentWorkflow: its attributes and its calls

vars ==
    << grammar_tool, essay, prompt_info, pc, llm_result, grammar_results,
       vocabulary_results, final_scores, result, llm_outcome, grammar_outcome,
       calls, first_call, lines_read, parse_state, prev_state, remaining,
       word_stats, other_call, analyses_done, workflow >>

\* the variables of the parser's loop, and those of the grader
parser_vars == << lines_read, parse_state, prev_state, remaining >>

grader_vars ==
    << grammar_tool, essay, prompt_info, llm_result, grammar_results,
       vocabulary_results, final_scores, result, llm_outcome, grammar_outcome,
       calls, first_call >>

\* the variables of the analyzer alone, of a second call, and of the
\* analyses run in another order
side_vars == << word_stats, other_call, analyses_done, workflow >>

\* the analyzer is not followed alone, there is no second call, the order of
\* the analyses is the one of grade_essay, and no workflow is constructed
SideIdle ==
    /\ word_stats = None
    /\ other_call = None
    /\ analyses_done = <<>>
    /\ workflow = None

\* no parser loop is under way
ParserIdle ==
    /\ lines_read = <<>>
    /\ parse_state = ParseStart
    /\ prev_state = ParseStart
    /\ remaining = {}

NoCalls == [completion |-> 0, grammar |-> 0, lexical |-> 0, reconciler |-> 0]

Terminal == {"too_short", "scored"}

\* __init__ leaves grammar_tool None or a LanguageTool; grade_essay is entered
Init ==
    /\ grammar_tool \in {"None", "LanguageTool"}
    /\ essay \in Essays
    /\ prompt_info \in PromptInfos
    /\ pc = "received"
    /\ llm_result = None
    /\ grammar_results = None
    /\ vocabulary_results = None
    /\ final_scores = None
    /\ result = None
    /\ llm_outcome = None
    /\ grammar_outcome = None
    /\ calls = NoCalls
    /\ first_call = None
    /\ SideIdle
    /\ ParserIdle

\* step 1: the basic check, and the return of the fixed result
BasicCheck ==
    /\ pc = "received"
    /\ IF TooShort(essay)
       THEN /\ result' = EmptyEssayResult
            /\ pc' = "too_short"
       ELSE /\ result' = result
            /\ pc' = "grade_with_llm"
    /\ UNCHANGED << grammar_tool, essay, prompt_info, llm_result,
                    grammar_results, vocabulary_results, final_scores,
                    llm_outcome, grammar_outcome, calls, first_call >>
    /\ UNCHANGED parser_vars
    /\ UNCHANGED side_vars

\* step 2: llm_result = self._grade_with_llm(essay, prompt_info)
GradeWithLlmStep ==
    /\ pc = "grade_with_llm"
    /\ \E outcome \in CompletionOutcomes :
         LET r == GradeWithLlm(outcome) IN
         /\ llm_outcome' = outcome
         /\ calls' = [calls EXCEPT !.completion = @ + 1]
         /\ IF r.raised
            THEN /\ pc' = "raised"
                 /\ llm_result' = llm_result
            ELSE /\ pc' = "check_grammar"
                 /\ llm_result' = r.value
    /\ UNCHANGED << grammar_tool, essay, prompt_info, grammar_results,
                    vocabulary_results, final_scores, result,
                    grammar_outcome, first_call >>
    /\ UNCHANGED parser_vars
    /\ UNCHANGED side_vars

\* step 3: grammar_results = self.check_grammar(essay, return_dict=True);
\* the service is called only when the grader has one
CheckGrammarStep ==
    /\ pc = "check_grammar"
    /\ \E outcome \in GrammarOutcomes :
         LET r == CheckGrammar(grammar_tool, essay, outcome) IN
         /\ IF grammar_tool = "None"
            THEN UNCHANGED << grammar_outcome, calls >>
            ELSE /\ grammar_outcome' = outcome
                 /\ calls' = [calls EXCEPT !.grammar = @ + 1]
         /\ IF r.raised
            THEN /\ pc' = "raised"
                 /\ grammar_results' = grammar_results
            ELSE /\ pc' = "analyze_vocabulary"
                 /\ grammar_results' = r.value
    /\ UNCHANGED << grammar_tool, essay, prompt_info, llm_result,
                    vocabulary_results, final_scores, result, llm_outcome,
                    first_call >>
    /\ UNCHANGED parser_vars
    /\ UNCHANGED side_vars

\* step 4: vocabulary_results = self.analyze_vocabulary(essay, return_dict=True)
AnalyzeVocabularyStep ==
    /\ pc = "analyze_vocabulary"
    /\ vocabulary_results' = AnalyzeVocabulary(essay)
    /\ calls' = [calls EXCEPT !.lexical = @ + 1]
    /\ pc' = "calculate_final_scores"
    /\ UNCHANGED << grammar_tool, essay, prompt_info, llm_result,
                    grammar_results, final_scores, result, llm_outcome,
                    grammar_outcome, first_call >>
    /\ UNCHANGED parser_vars
    /\ UNCHANGED side_vars

\* one call of _calculate_final_scores on the three dictionaries
Calculate ==
    LET after == ArgumentsAfterCalculate(llm_result, grammar_results,
                                         vocabulary_results)
    IN  /\ final_scores' = FinalScores(llm_result, grammar_results,
                                       vocabulary_results)
        /\ llm_result' = after.llm_result
        /\ grammar_results' = after.grammar_results
        /\ vocabulary_results' = after.vocabulary_results
        /\ calls' = [calls EXCEPT !.reconciler = @ + 1]
        /\ first_call' =
             IF calls.reconciler = 0
             THEN [ llm_result |-> llm_result,
                    grammar_results |-> grammar_results,
                    vocabulary_results |-> vocabulary_results,
                    scores |-> FinalScores(llm_result, grammar_results,
                                           vocabulary_results) ]
             ELSE first_call

\* step 5: final_scores = self._calculate_final_scores(...)
CalculateFinalScoresStep ==
    /\ pc = "calculate_final_scores"
    /\ Calculate
    /\ pc' = "assemble"
    /\ UNCHANGED << grammar_tool, essay, prompt_info, result, llm_outcome,
                    grammar_outcome >>
    /\ UNCHANGED parser_vars
    /\ UNCHANGED side_vars

\* step 6: the result dictionary is built and returned
AssembleStep ==
    /\ pc = "assemble"
    /\ result' = AssembleResult(essay, prompt_info, llm_result,
                                grammar_results, vocabulary_results,
                                final_scores)
    /\ pc' = "scored"
    /\ UNCHANGED << grammar_tool, essay, prompt_info, llm_result,
                    grammar_results, vocabulary_results, final_scores,
                    llm_outcome, grammar_outcome, calls, first_call >>
    /\ UNCHANGED parser_vars
    /\ UNCHANGED side_vars

Next ==
    \/ BasicCheck
    \/ GradeWithLlmStep
    \/ CheckGrammarStep
    \/ AnalyzeVocabularyStep
    \/ CalculateFinalScoresStep
    \/ AssembleStep

Spec == Init /\ [][Next]_vars

(***************************************************************************)
(* The score reconciler alone: _calculate_final_scores called twice on     *)
(* the same three dictionaries.                                            *)
(***************************************************************************)
\* a rubric result with the four scores given
RubricResult(overall, grammar, vocabulary, content) ==
    [ EmptyParseResult EXCEPT !.overall_score = overall,
                              !.grammar_score = grammar,
                              !.vocabulary_score = vocabulary,
                              !.content_score = content ]

\* the grammar report for a list of n matches
GrammarReport(n) ==
    CheckGrammar("LanguageTool", <<>>,
                 [kind |-> "matches", matches |-> MatchList(n)]).value

\* <<word_count, unique_count>> pairs around the two thresholds
DiversityCases ==
    { <<0, 0>>, <<4, 1>>, <<1000, 299>>, <<10, 3>>, <<1000, 301>>, <<2, 1>>,
      <<5, 3>>, <<1000, 601>>, <<1, 1>>, <<667, 200>>, <<1001, 601>> }

\* every grammar score with every error count, and every vocabulary score
\* with every diversity case
ReconcilerInputs ==
    { [ llm_result |-> RubricResult(o, g, v, c),
        grammar_results |-> GrammarReport(n),
        vocabulary_results |-> VocabularyReport(d[1], d[2], d[2]) ] :
        o \in {0, 100}, g \in 0..30, v \in {29}, c \in {0, 40},
        n \in 0..MaxMatches, d \in {<<1, 1>>} }
    \cup
    { [ llm_result |-> RubricResult(o, g, v, c),
        grammar_results |-> GrammarReport(n),
        vocabulary_results |-> VocabularyReport(d[1], d[2], d[2]) ] :
        o \in {0, 100}, g \in {2, 30}, v \in 0..30, c \in {40},
        n \in {0, 11}, d \in DiversityCases }

InitReconcile ==
    /\ \E in \in ReconcilerInputs :
         /\ llm_result = in.llm_result
         /\ grammar_results = in.grammar_results
         /\ vocabulary_results = in.vocabulary_results
    /\ pc = "reconciler"
    /\ grammar_tool = "LanguageTool"
    /\ essay = <<>>
    /\ prompt_info = <<>>
    /\ final_scores = None
    /\ result = None
    /\ llm_outcome = None
    /\ grammar_outcome = None
    /\ calls = NoCalls
    /\ first_call = None
    /\ SideIdle
    /\ ParserIdle

\* a call of the reconciler on the three dictionaries as they now are
ReconcileStep ==
    /\ pc = "reconciler"
    /\ calls.reconciler < 2
    /\ Calculate
    /\ UNCHANGED << grammar_tool, essay, prompt_info, pc, result,
                    llm_outcome, grammar_outcome >>
    /\ UNCHANGED parser_vars
    /\ UNCHANGED side_vars

SpecReconcile == InitReconcile /\ [][ReconcileStep]_vars

(***************************************************************************)
(* The parser's loop alone: _parse_llm_response going through a reply line *)
(* by line, the reply being any sequence of at most MaxLines lines of      *)
(* ParserLines.                                                            *)
(***************************************************************************)
\* lines the completion service may write: blank lines, plain text, score
\* lines (in range, above the denominator, without a number), the evaluation
\* line, the three section lines (one of them without text), and lines that
\* begin like a label without being one
ParserLines ==
    { <<>>,
      <<" ">>,
      <<" ", "o", "k", " ">>,
      LabelOverallScore \o <<" ", "8", "5", "/", "1", "0", "0">>,
      LabelGrammarScore \o <<" ", "2", "5", "/", "3", "0">>,
      LabelGrammarScore \o <<" ", "4", "5", "/", "3", "0">>,
      LabelVocabularyScore \o <<" ", "h", "i", "g", "h">>,
      LabelOverallFeedback \o <<" ", "G", "o", "o", "d", ".">>,
      LabelStrengths \o <<" ", "c", "l", "e", "a", "r">>,
      LabelWeaknesses \o <<" ", "s", "h", "o", "r", "t">>,
      LabelSuggestions,
      <<"1", ".", " ", "f", "i", "r", "s", "t">>,
      <<"zong", "ti", "lai", "shuo", " ", "o", "k">> }

\* the reply the lines read so far make up
ResponseText == JoinWith(lines_read, <<"\n">>)

InitParse ==
    /\ pc = "parser"
    /\ grammar_tool = "None"
    /\ essay = <<>>
    /\ prompt_info = <<>>
    /\ llm_result = None
    /\ grammar_results = None
    /\ vocabulary_results = None
    /\ final_scores = None
    /\ result = None
    /\ llm_outcome = None
    /\ grammar_outcome = None
    /\ calls = NoCalls
    /\ first_call = None
    /\ SideIdle
    /\ ParserIdle

\* one pass of the loop body, over the next line of the reply
ReadLine ==
    /\ pc = "parser"
    /\ Len(lines_read) < MaxLines
    /\ \E line \in ParserLines :
         /\ lines_read' = Append(lines_read, line)
         /\ prev_state' = parse_state
         /\ parse_state' = ParseStep(parse_state, line)
    /\ UNCHANGED << pc, remaining >>
    /\ UNCHANGED grader_vars
    /\ UNCHANGED side_vars

SpecParse == InitParse /\ [][ReadLine]_vars

(***************************************************************************)
(* The parser's loop over the eight lines of the template, in any order:   *)
(* each pass reads one of the lines not yet read.  The order read is not   *)
(* recorded, so that runs which read the same lines in different orders    *)
(* meet in one state when they leave the parser in the same state.         *)
(***************************************************************************)
\* the eight lines of the reply format, with the scores q
TemplateLines(q) ==
    { LabelOverallScore \o <<" ">> \o IntToText(q[1]) \o <<"/", "1", "0", "0">>,
      LabelGrammarScore \o <<" ">> \o IntToText(q[2]) \o <<"/", "3", "0">>,
      LabelVocabularyScore \o <<" ">> \o IntToText(q[3]) \o <<"/", "3", "0">>,
      LabelContentScore \o <<" ">> \o IntToText(q[4]) \o <<"/", "4", "0">>,
      LabelOverallFeedback \o <<" ", "G", "o", "o", "d", ".">>,
      LabelStrengths \o <<" ", "c", "l", "e", "a", "r">>,
      LabelWeaknesses \o <<" ", "s", "h", "o", "r", "t">>,
      LabelSuggestions \o <<" ", "r", "e", "a", "d">> }

InitOrder ==
    /\ pc = "parser"
    /\ \E q \in ResponseScores :
         /\ llm_outcome = [kind |-> "lines", scores |-> q]
         /\ remaining = TemplateLines(q)
    /\ lines_read = <<>>
    /\ parse_state = ParseStart
    /\ prev_state = ParseStart
    /\ grammar_tool = "None"
    /\ essay = <<>>
    /\ prompt_info = <<>>
    /\ llm_result = None
    /\ grammar_results = None
    /\ vocabulary_results = None
    /\ final_scores = None
    /\ result = None
    /\ grammar_outcome = None
    /\ calls = NoCalls
    /\ first_call = None
    /\ SideIdle

\* one pass of the loop body, over a line not yet read
ReadTemplateLine ==
    /\ pc = "parser"
    /\ \E line \in remaining :
         /\ remaining' = remaining \ {line}
         /\ prev_state' = parse_state
         /\ parse_state' = ParseStep(parse_state, line)
    /\ UNCHANGED << pc, lines_read >>
    /\ UNCHANGED grader_vars
    /\ UNCHANGED side_vars

SpecOrder == InitOrder /\ [][ReadTemplateLine]_vars

(***************************************************************************)
(* The two helpers alone: check_grammar(text, return_dict=True) and        *)
(* analyze_vocabulary(text, return_dict=True) called once each on a text,  *)
(* empty and blank texts included.                                         *)
(***************************************************************************)
\* the texts of whitespace only, up to MaxBlank characters, the empty one
\* among them
BlankTexts == UNION { [1..k -> Whitespace] : k \in 0..MaxBlank }

HelperTexts == Essays \cup BlankTexts

InitHelpers ==
    /\ pc = "helpers"
    /\ grammar_tool \in {"None", "LanguageTool"}
    /\ essay \in HelperTexts
    /\ prompt_info = <<>>
    /\ llm_result = None
    /\ grammar_results = None
    /\ vocabulary_results = None
    /\ final_scores = None
    /\ result = None
    /\ llm_outcome = None
    /\ grammar_outcome = None
    /\ calls = NoCalls
    /\ first_call = None
    /\ SideIdle
    /\ ParserIdle

\* grammar_results = self.check_grammar(text, return_dict=True)
CheckGrammarCall ==
    /\ pc = "helpers"
    /\ grammar_results = None
    /\ \E outcome \in GrammarOutcomes :
         LET r == CheckGrammar(grammar_tool, essay, outcome) IN
         /\ IF grammar_tool = "None"
            THEN UNCHANGED << grammar_outcome, calls >>
            ELSE /\ grammar_outcome' = outcome
                 /\ calls' = [calls EXCEPT !.grammar = @ + 1]
         /\ IF r.raised
            THEN /\ pc' = "raised"
                 /\ grammar_results' = grammar_results
            ELSE /\ pc' = pc
                 /\ grammar_results' = r.value
    /\ UNCHANGED << grammar_tool, essay, prompt_info, llm_result,
                    vocabulary_results, final_scores, result, llm_outcome,
                    first_call >>
    /\ UNCHANGED parser_vars
    /\ UNCHANGED side_vars

\* vocabulary_results = self.analyze_vocabulary(text, return_dict=True)
AnalyzeVocabularyCall ==
    /\ pc = "helpers"
    /\ vocabulary_results = None
    /\ vocabulary_results' = AnalyzeVocabulary(essay)
    /\ calls' = [calls EXCEPT !.lexical = @ + 1]
    /\ UNCHANGED << grammar_tool, essay, prompt_info, pc, llm_result,
                    grammar_results, final_scores, result, llm_outcome,
                    grammar_outcome, first_call >>
    /\ UNCHANGED parser_vars
    /\ UNCHANGED side_vars

NextHelpers ==
    \/ CheckGrammarCall
    \/ AnalyzeVocabularyCall

SpecHelpers == InitHelpers /\ [][NextHelpers]_vars

(***************************************************************************)
(* The analyzer after its count of the words: the ratios, the feedback and *)
(* the dictionary of analyze_vocabulary for a text of word_count words,    *)
(* unique_count of them distinct and advanced_count of those not basic.    *)
(* The text is given by its three counts: texts of 200 words and more are  *)
(* among the cases.                                                        *)
(***************************************************************************)
\* the word counts of the cases, around 30 and 200
LexicalWordCounts == {1, 5, 10, 29, 30, 31, 200, 201, 210}

\* the counts of distinct words for w words: the small ones, all of them
\* distinct, and the ones at and next to 0.4 w and 0.7 w
UniqueCounts(w) ==
    { u \in 1..w :
        \/ u <= 5
        \/ u = w
        \/ \E d \in {-1, 0, 1} : 10 * (u + d) = 4 * w \/ 10 * (u + d) = 7 * w }

\* the counts of advanced words among u distinct ones: none, all, the small
\* ones, and the ones at and next to 0.1 u and 0.3 u
AdvancedCounts(u) ==
    { a \in 0..u :
        \/ a <= 2
        \/ a = u
        \/ \E d \in {-1, 0, 1} : 10 * (a + d) = u \/ 10 * (a + d) = 3 * u }

LexicalCases ==
    UNION { UNION { { [word_count |-> w, unique_count |-> u, advanced_count |-> a] :
                        a \in AdvancedCounts(u) } :
                    u \in UniqueCounts(w) } :
            w \in LexicalWordCounts }

InitLexical ==
    /\ pc = "lexical"
    /\ word_stats \in LexicalCases
    /\ other_call = None
    /\ analyses_done = <<>>
    /\ workflow = None
    /\ grammar_tool = "None"
    /\ essay = <<>>
    /\ prompt_info = <<>>
    /\ llm_result = None
    /\ grammar_results = None
    /\ vocabulary_results = None
    /\ final_scores = None
    /\ result = None
    /\ llm_outcome = None
    /\ grammar_outcome = None
    /\ calls = NoCalls
    /\ first_call = None
    /\ ParserIdle

\* the rest of analyze_vocabulary(text, return_dict=True)
ReportVocabulary ==
    /\ pc = "lexical"
    /\ calls.lexical = 0
    /\ vocabulary_results' =
         VocabularyReport(word_stats.word_count, word_stats.unique_count,
                          word_stats.advanced_count)
    /\ calls' = [calls EXCEPT !.lexical = @ + 1]
    /\ UNCHANGED << grammar_tool, essay, prompt_info, pc, llm_result,
                    grammar_results, final_scores, result, llm_outcome,
                    grammar_outcome, first_call >>
    /\ UNCHANGED parser_vars
    /\ UNCHANGED side_vars

SpecLexical == InitLexical /\ [][ReportVocabulary]_vars

(***************************************************************************)
(* grade_essay as a function, and its three analyses in any order.         *)
(***************************************************************************)
\* the report grade_essay returns for an essay and a prompt on a grader
\* with the field grammar_tool, when the completion service and the grammar
\* service do what completion and grammar say
ReportOf(tool, essay_text, prompt, completion, grammar) ==
    IF TooShort(essay_text) THEN EmptyEssayResult
    ELSE LET llm == GradeWithLlm(completion).value
             checked == CheckGrammar(tool, essay_text, grammar).value
             analyzed == AnalyzeVocabulary(essay_text)
         IN  AssembleResult(essay_text, prompt, llm, checked, analyzed,
                            FinalScores(llm, checked, analyzed))

\* a join that lets the reconciler start after two analyses
TwoAnalysesDone(done) == Len(done) >= 2

\* the three analyses of steps 2 to 4 have returned
AllAnalysesDone(done) == ToSet(done) = {"llm", "grammar", "vocabulary"}

\* the essays of the normal path among the sample essays
NormalPathEssays == { e \in SampleEssays : ~TooShort(e) }

InitAnyOrder ==
    /\ pc = "analyses"
    /\ grammar_tool \in {"None", "LanguageTool"}
    /\ essay \in NormalPathEssays
    /\ prompt_info \in PromptInfos
    /\ llm_result = None
    /\ grammar_results = None
    /\ vocabulary_results = None
    /\ final_scores = None
    /\ result = None
    /\ llm_outcome = None
    /\ grammar_outcome = None
    /\ calls = NoCalls
    /\ first_call = None
    /\ ParserIdle
    /\ SideIdle

\* where the call is once the analyses in done have returned
AfterAnalyses(done) ==
    IF AllAnalysesDone(done) THEN "calculate_final_scores" ELSE "analyses"

\* step 2, whenever it is run
GradeWithLlmAny ==
    /\ pc = "analyses"
    /\ "llm" \notin ToSet(analyses_done)
    /\ \E outcome \in CompletionOutcomes :
         LET r == GradeWithLlm(outcome) IN
         /\ llm_outcome' = outcome
         /\ calls' = [calls EXCEPT !.completion = @ + 1]
         /\ IF r.raised
            THEN /\ pc' = "raised"
                 /\ UNCHANGED << llm_result, analyses_done >>
            ELSE /\ llm_result' = r.value
                 /\ analyses_done' = Append(analyses_done, "llm")
                 /\ pc' = AfterAnalyses(analyses_done')
    /\ UNCHANGED << grammar_tool, essay, prompt_info, grammar_results,
                    vocabulary_results, final_scores, result,
                    grammar_outcome, first_call, word_stats, other_call, workflow >>
    /\ UNCHANGED parser_vars

\* step 3, whenever it is run
CheckGrammarAny ==
    /\ pc = "analyses"
    /\ "grammar" \notin ToSet(analyses_done)
    /\ \E outcome \in GrammarOutcomes :
         LET r == CheckGrammar(grammar_tool, essay, outcome) IN
         /\ IF grammar_tool = "None"
            THEN UNCHANGED << grammar_outcome, calls >>
            ELSE /\ grammar_outcome' = outcome
                 /\ calls' = [calls EXCEPT !.grammar = @ + 1]
         /\ IF r.raised
            THEN /\ pc' = "raised"
                 /\ UNCHANGED << grammar_results, analyses_done >>
            ELSE /\ grammar_results' = r.value
                 /\ analyses_done' = Append(analyses_done, "grammar")
                 /\ pc' = AfterAnalyses(analyses_done')
    /\ UNCHANGED << grammar_tool, essay, prompt_info, llm_result,
                    vocabulary_results, final_scores, result, llm_outcome,
                    first_call, word_stats, other_call, workflow >>
    /\ UNCHANGED parser_vars

\* step 4, whenever it is run
AnalyzeVocabularyAny ==
    /\ pc = "analyses"
    /\ "vocabulary" \notin ToSet(analyses_done)
    /\ vocabulary_results' = AnalyzeVocabulary(essay)
    /\ calls' = [calls EXCEPT !.lexical = @ + 1]
    /\ analyses_done' = Append(analyses_done, "vocabulary")
    /\ pc' = AfterAnalyses(analyses_done')
    /\ UNCHANGED << grammar_tool, essay, prompt_info, llm_result,
                    grammar_results, final_scores, result, llm_outcome,
                    grammar_outcome, first_call, word_stats, other_call, workflow >>
    /\ UNCHANGED parser_vars

\* steps 2 to 4 in any order, then steps 5 and 6
NextAnyOrder ==
    \/ GradeWithLlmAny
    \/ CheckGrammarAny
    \/ AnalyzeVocabularyAny
    \/ CalculateFinalScoresStep
    \/ AssembleStep

SpecAnyOrder == InitAnyOrder /\ [][NextAnyOrder]_vars

(***************************************************************************)
(* Two calls of grade_essay on one grader, their steps interleaved in any  *)
(* way.  The first call has the variables of Spec and takes the steps of   *)
(* Spec; the locals of the second call are the record other_call.  The     *)
(* grader's field grammar_tool is the one thing the two calls both read.   *)
(***************************************************************************)
\* the locals of a call that has just been entered
EnteredCall(essay_text, prompt) ==
    [ essay |-> essay_text, prompt_info |-> prompt, pc |-> "received",
      llm_result |-> None, grammar_results |-> None,
      vocabulary_results |-> None, final_scores |-> None, result |-> None,
      llm_outcome |-> None, grammar_outcome |-> None ]

\* the locals c of a call after its next step, on a grader whose field
\* grammar_tool is tool, when the services do what completion and grammar
\* say should the step call one of them
StepOfCall(tool, c, completion, grammar) ==
    CASE c.pc = "received" ->
           IF TooShort(c.essay)
           THEN [c EXCEPT !.result = EmptyEssayResult, !.pc = "too_short"]
           ELSE [c EXCEPT !.pc = "grade_with_llm"]
      [] c.pc = "grade_with_llm" ->
           LET r == GradeWithLlm(completion) IN
           IF r.raised
           THEN [c EXCEPT !.llm_outcome = completion, !.pc = "raised"]
           ELSE [c EXCEPT !.llm_outcome = completion, !.llm_result = r.value,
                          !.pc = "check_grammar"]
      [] c.pc = "check_grammar" ->
           LET r == CheckGrammar(tool, c.essay, grammar)
               called == IF tool = "None" THEN None ELSE grammar
           IN  IF r.raised
               THEN [c EXCEPT !.grammar_outcome = called, !.pc = "raised"]
               ELSE [c EXCEPT !.grammar_outcome = called,
                              !.grammar_results = r.value,
                              !.pc = "analyze_vocabulary"]
      [] c.pc = "analyze_vocabulary" ->
           [c EXCEPT !.vocabulary_results = AnalyzeVocabulary(c.essay),
                     !.pc = "calculate_final_scores"]
      [] c.pc = "calculate_final_scores" ->
           LET after == ArgumentsAfterCalculate(c.llm_result, c.grammar_results,
                                                c.vocabulary_results)
           IN  [c EXCEPT !.final_scores = FinalScores(c.llm_result,
                                                      c.grammar_results,
                                                      c.vocabulary_results),
                         !.llm_result = after.llm_result,
                         !.grammar_results = after.grammar_results,
                         !.vocabulary_results = after.vocabulary_results,
                         !.pc = "assemble"]
      [] c.pc = "assemble" ->
           [c EXCEPT !.result = AssembleResult(c.essay, c.prompt_info,
                                               c.llm_result, c.grammar_results,
                                               c.vocabulary_results,
                                               c.final_scores),
                     !.pc = "scored"]
      [] OTHER -> c

\* a step that finds the grammar service taken by the other call and goes
\* on as if the grader had none
CallStepToolTaken(tool, c, completion, grammar) ==
    LET stepped == StepOfCall("None", c, completion, grammar) IN
    IF c.pc = "check_grammar" /\ tool # "None"
    THEN [stepped EXCEPT !.grammar_outcome = grammar]
    ELSE stepped

\* the next step of a call on the grader
CallStep(tool, c, completion, grammar) ==
    StepOfCall(tool, c, completion, grammar)

\* what the two services do for the second call
OtherCompletionOutcomes ==
    { [kind |-> "raise"],
      [kind |-> "text", text |-> ReplyWith(<<85, 25, 24, 36>>)] }

OtherGrammarOutcomes ==
    { [kind |-> "raise", message |-> <<"connection refused">>],
      [kind |-> "matches", matches |-> MatchList(3)],
      [kind |-> "matches", matches |-> MatchList(11)] }

InitTwoCalls ==
    /\ grammar_tool \in {"None", "LanguageTool"}
    /\ essay \in {NineCharEssay, TenCharEssay}
    /\ prompt_info = [title |-> <<"My Family">>, prompt |-> <<"Write about your family.">>]
    /\ pc = "received"
    /\ llm_result = None
    /\ grammar_results = None
    /\ vocabulary_results = None
    /\ final_scores = None
    /\ result = None
    /\ llm_outcome = None
    /\ grammar_outcome = None
    /\ calls = NoCalls
    /\ first_call = None
    /\ ParserIdle
    /\ word_stats = None
    /\ analyses_done = <<>>
    /\ workflow = None
    /\ other_call \in { EnteredCall(e, [prompt |-> <<"Write about your family.">>]) :
                          e \in {ThreeOfFiveEssay, NineCharEssay} }

\* a step of the second call
OtherCallStep ==
    /\ other_call.pc \notin Terminal \cup {"raised"}
    /\ \E completion \in OtherCompletionOutcomes, grammar \in OtherGrammarOutcomes :
         other_call' = CallStep(grammar_tool, other_call, completion, grammar)
    /\ UNCHANGED << grammar_tool, essay, prompt_info, pc, llm_result,
                    grammar_results, vocabulary_results, final_scores, result,
                    llm_outcome, grammar_outcome, calls, first_call,
                    word_stats, analyses_done, workflow >>
    /\ UNCHANGED parser_vars

\* a step of the first call or a step of the second
NextTwoCalls ==
    \/ Next
    \/ OtherCallStep

SpecTwoCalls == InitTwoCalls /\ [][NextTwoCalls]_vars

(***************************************************************************)
(* EssayAgentWorkflow: its constructor, _initialize_agent and              *)
(* run_agent_conversation.  The variable workflow holds the position in    *)
(* the constructor, the attributes of the object, what hub.pull and        *)
(* create_react_agent did, and the conversations held since.               *)
(***************************************************************************)
\* an attribute no statement has assigned yet: reading it raises AttributeError
Unassigned == "unassigned"

MsgAgentNotInitialized == <<"zhinengti wei chushihua, wufa jinxing duihua">>
MsgNoReply == <<"wei shoudao huifu">>
MsgConversationError == <<"duihua chucuo: ">>

\* the object as __init__ finds it: no attribute assigned
NewWorkflow ==
    [ pc |-> "services",
      attrs |-> [ knowledge_base |-> Unassigned, essay_grader |-> Unassigned,
                  tools |-> Unassigned, agent |-> Unassigned,
                  agent_executor |-> Unassigned, memory |-> Unassigned ],
      pulled |-> "None",
      created |-> "None",
      asked |-> <<>> ]

\* what a call of a library function does
LibraryOutcomes == {"ok", "raises"}

\* the queries put to run_agent_conversation
Queries ==
    { <<"recommend a topic">>, <<"check my grammar">>, <<"hello">>, <<>> }

\* what agent_executor.invoke does: a result with an output, a result
\* without one, or an exception
InvokeOutcomes ==
    { [kind |-> "output", text |-> <<"Try: My Family">>],
      [kind |-> "no_output", text |-> <<>>],
      [kind |-> "raises", text |-> <<"timeout">>] }

\* self.name is read: AttributeError unless it has been assigned
AttributeError(attrs, names) == \E n \in names : attrs[n] = Unassigned

\* run_agent_conversation(query)
RunAgentConversationReply(attrs, query, outcome) ==
    IF attrs.agent_executor = "None"
    THEN MsgAgentNotInitialized
    ELSE CASE outcome.kind = "output" -> outcome.text
           [] outcome.kind = "no_output" -> MsgNoReply
           [] outcome.kind = "raises" -> MsgConversationError \o outcome.text

InitWorkflow ==
    /\ pc = "workflow"
    /\ workflow = NewWorkflow
    /\ word_stats = None
    /\ other_call = None
    /\ analyses_done = <<>>
    /\ grammar_tool \in {"None", "LanguageTool"}
    /\ essay = <<>>
    /\ prompt_info = <<>>
    /\ llm_result = None
    /\ grammar_results = None
    /\ vocabulary_results = None
    /\ final_scores = None
    /\ result = None
    /\ llm_outcome = None
    /\ grammar_outcome = None
    /\ calls = NoCalls
    /\ first_call = None
    /\ ParserIdle

\* what the steps of the workflow leave alone
WorkflowOnly ==
    /\ UNCHANGED << pc, word_stats, other_call, analyses_done >>
    /\ UNCHANGED grader_vars
    /\ UNCHANGED parser_vars

\* self.knowledge_base = knowledge_base; self.essay_grader = essay_grader
AssignServices ==
    /\ pc = "workflow"
    /\ workflow.pc = "services"
    /\ workflow' = [workflow EXCEPT !.pc = "tools",
                                    !.attrs.knowledge_base = "EssayKnowledgeBase",
                                    !.attrs.essay_grader = "EssayGrader"]
    /\ WorkflowOnly

\* self.tools = self._initialize_tools()
InitializeTools ==
    /\ pc = "workflow"
    /\ workflow.pc = "tools"
    /\ workflow' = [workflow EXCEPT !.pc = "reset", !.attrs.tools = "tools"]
    /\ WorkflowOnly

\* self.agent = None; self.agent_executor = None; self._initialize_agent()
\* is entered
ResetAgent ==
    /\ pc = "workflow"
    /\ workflow.pc = "reset"
    /\ workflow' = [workflow EXCEPT !.pc = "pull",
                                    !.attrs.agent = "None",
                                    !.attrs.agent_executor = "None"]
    /\ WorkflowOnly

\* _initialize_agent: prompt = hub.pull("hwchase17/react")
PullPrompt ==
    /\ pc = "workflow"
    /\ workflow.pc = "pull"
    /\ \E outcome \in LibraryOutcomes :
         workflow' = [workflow EXCEPT
                        !.pulled = outcome,
                        !.pc = IF outcome = "ok" THEN "create" ELSE "except"]
    /\ WorkflowOnly

\* _initialize_agent: self.agent = create_react_agent(llm=self.essay_grader.llm,
\* tools=self.tools, prompt=prompt)
CreateAgent ==
    /\ pc = "workflow"
    /\ workflow.pc = "create"
    /\ IF AttributeError(workflow.attrs, {"essay_grader", "tools"})
       THEN workflow' = [workflow EXCEPT !.pc = "except"]
       ELSE \E outcome \in LibraryOutcomes :
              workflow' =
                IF outcome = "ok"
                THEN [workflow EXCEPT !.created = "ok", !.pc = "executor",
                                      !.attrs.agent = "agent"]
                ELSE [workflow EXCEPT !.created = "raises", !.pc = "except"]
    /\ WorkflowOnly

\* _initialize_agent: self.agent_executor = AgentExecutor(agent=self.agent,
\* tools=self.tools, memory=self.memory, ...), then the message of success
CreateExecutor ==
    /\ pc = "workflow"
    /\ workflow.pc = "executor"
    /\ IF AttributeError(workflow.attrs, {"agent", "tools", "memory"})
       THEN workflow' = [workflow EXCEPT !.pc = "except"]
       ELSE \E outcome \in LibraryOutcomes :
              workflow' =
                IF outcome = "ok"
                THEN [workflow EXCEPT !.pc = "memory",
                                      !.attrs.agent_executor = "AgentExecutor"]
                ELSE [workflow EXCEPT !.pc = "except"]
    /\ WorkflowOnly

\* _initialize_agent: except Exception as e: print(""), and the return
ExceptInitializeAgent ==
    /\ pc = "workflow"
    /\ workflow.pc = "except"
    /\ workflow' = [workflow EXCEPT !.pc = "memory"]
    /\ WorkflowOnly

\* self.memory = ConversationBufferMemory(...), the end of __init__
AssignMemory ==
    /\ pc = "workflow"
    /\ workflow.pc = "memory"
    /\ workflow' = [workflow EXCEPT !.pc = "ready",
                                    !.attrs.memory = "ConversationBufferMemory"]
    /\ WorkflowOnly

\* run_agent_conversation(query) on the constructed workflow
RunAgentConversation ==
    /\ pc = "workflow"
    /\ workflow.pc = "ready"
    /\ Len(workflow.asked) < MaxQueries
    /\ \E query \in Queries, outcome \in InvokeOutcomes :
         workflow' =
           [workflow EXCEPT !.asked =
              Append(@, [ query |-> query,
                          invoked |-> workflow.attrs.agent_executor # "None",
                          reply |-> RunAgentConversationReply(workflow.attrs,
                                                              query, outcome) ])]
    /\ WorkflowOnly

NextWorkflow ==
    \/ AssignServices
    \/ InitializeTools
    \/ ResetAgent
    \/ PullPrompt
    \/ CreateAgent
    \/ CreateExecutor
    \/ ExceptInitializeAgent
    \/ AssignMemory
    \/ RunAgentConversation

SpecWorkflow == InitWorkflow /\ [][NextWorkflow]_vars

(***************************************************************************)
(* The claims.                                                             *)
(***************************************************************************)
\* the length of the essay between its surrounding whitespace
TrimmedLength == Len(Strip(essay))

\* an upper bound of the number of steps grade_essay still takes
StepsLeft(p) ==
    CASE p = "received" -> 6
      [] p = "grade_with_llm" -> 5
      [] p = "check_grammar" -> 4
      [] p = "analyze_vocabulary" -> 3
      [] p = "calculate_final_scores" -> 2
      [] p = "assemble" -> 1
      [] OTHER -> 0

C2_TooShortReport ==
    (TrimmedLength < 10 /\ pc # "received") =>
        /\ pc = "too_short"
        /\ result.overall_score = 0
        /\ result.grammar_score = 0
        /\ result.vocabulary_score = 0
        /\ result.content_score = 0
        /\ Len(result.weaknesses) = 1
        /\ calls.completion = 0
        /\ calls.grammar = 0
        /\ calls.lexical = 0

\* C2 witness: an essay of 10 or more characters, 9 of them between the
\* surrounding whitespace, took the fast path
C2_Witness == pc = "too_short" /\ TrimmedLength = 9 /\ Len(essay) >= 10

\* C3 as claimed: the report of the fast path has no suggestion and no
\* strength.
C3_Original ==
    pc = "too_short" => result.suggestions = <<>> /\ result.strengths = <<>>

\* C3 amended: the report of the fast path has no strength and exactly one
\* suggestion, the fixed request to write at least 20 words.
C3_OneSuggestion ==
    pc = "too_short" =>
        /\ result.strengths = <<>>
        /\ result.suggestions = <<MsgWriteTwentyWords>>

\* C3 witness: a non-empty essay took the fast path
C3_Witness == pc = "too_short" /\ essay # <<>> /\ Len(result.suggestions) = 1

C5_DefaultRubric ==
    (pc = "scored" /\ llm_outcome.kind = "raise") =>
        LET scores == FinalScores(RubricResult(60, 20, 20, 20),
                                  grammar_results, vocabulary_results)
        IN  /\ result.overall_score = scores.overall
            /\ result.grammar_score = scores.grammar
            /\ result.vocabulary_score = scores.vocabulary
            /\ result.content_score = scores.content
            /\ result.suggestions =
                 <<MsgCheckGrammar, MsgVaryVocabulary, MsgStayOnTopic>>
            /\ result.strengths = <<>>
            /\ result.weaknesses = <<>>

\* C5 witness: the completion service raised and the grammar service found
\* 11 errors: grammar 20 - 8 = 12
C5_Witness ==
    /\ pc = "scored"
    /\ llm_outcome.kind = "raise"
    /\ grammar_results.error_count = 11
    /\ result.grammar_score = 12

\* C6: the reconciled grammar score is the rubric's g less 8 for more than
\* 10 errors, less 5 for 6 to 10, less 3 for 3 to 5, never below 0, and g
\* for 0, 1 or 2 errors.
C6_GrammarPenalty ==
    calls.reconciler >= 1 =>
        LET g == first_call.llm_result.grammar_score
            n == first_call.grammar_results.error_count
        IN  first_call.scores.grammar =
              CASE n > 10 -> Max(0, g - 8)
                [] n > 5 /\ n <= 10 -> Max(0, g - 5)
                [] n > 2 /\ n <= 5 -> Max(0, g - 3)
                [] n \in {0, 1, 2} -> g

\* C6 witness: g = 30 with 11 errors gives 22
C6_Witness ==
    /\ calls.reconciler >= 1
    /\ first_call.llm_result.grammar_score = 30
    /\ first_call.grammar_results.error_count = 11
    /\ first_call.scores.grammar = 22

\* C7 as claimed: the reconciled vocabulary score is v - 5 below a
\* diversity of 0.3, min(30, v + 3) above 0.6, and v otherwise.
C7_Original ==
    calls.reconciler >= 1 =>
        LET v == first_call.llm_result.vocabulary_score
            d == first_call.vocabulary_results.lexical_diversity
        IN  first_call.scores.vocabulary =
              IF d < 300 THEN v - 5
              ELSE IF d > 600 THEN Min(30, v + 3)
              ELSE v

\* C7 amended: the penalty is floored at 0: max(0, v - 5) below a diversity
\* of 0.3, min(30, v + 3) above 0.6, and v otherwise.
C7_VocabularyAdjustment ==
    calls.reconciler >= 1 =>
        LET v == first_call.llm_result.vocabulary_score
            d == first_call.vocabulary_results.lexical_diversity
        IN  first_call.scores.vocabulary =
              IF d < 300 THEN Max(0, v - 5)
              ELSE IF d > 600 THEN Min(30, v + 3)
              ELSE v

\* C7 witness: a base of 3 below a diversity of 0.3 gives 0
C7_Witness ==
    /\ calls.reconciler >= 1
    /\ first_call.llm_result.vocabulary_score = 3
    /\ first_call.vocabulary_results.lexical_diversity = 299
    /\ first_call.scores.vocabulary = 0

\* C8: the content score returned is the rubric's, and the overall score is
\* the floor of 98 hundredths of the sum of the three scores returned,
\* whatever the rubric's overall score.
C8_ContentAndOverall ==
    calls.reconciler >= 1 =>
        /\ first_call.scores.content = first_call.llm_result.content_score
        /\ first_call.scores.overall =
             ((first_call.scores.grammar + first_call.scores.vocabulary
               + first_call.scores.content) * 98) \div 100
        /\ DOMAIN first_call.scores =
             {"overall", "grammar", "vocabulary", "content"}

\* C8 witness: a rubric overall of 100 with scores 22 + 30 + 40: overall 90
C8_Witness ==
    /\ calls.reconciler >= 1
    /\ first_call.llm_result.overall_score = 100
    /\ first_call.scores.grammar = 22
    /\ first_call.scores.vocabulary = 30
    /\ first_call.scores.content = 40
    /\ first_call.scores.overall = 90

\* C9: the reconciler called a second time on the same three dictionaries
\* returns what it returned the first time, and the dictionaries are as
\* they were before the first call.
C9_SecondCallSame ==
    calls.reconciler = 2 =>
        /\ final_scores = first_call.scores
        /\ llm_result = first_call.llm_result
        /\ grammar_results = first_call.grammar_results
        /\ vocabulary_results = first_call.vocabulary_results

\* C9 witness: a second call where a penalty and a bonus both apply
C9_Witness ==
    /\ calls.reconciler = 2
    /\ llm_result.grammar_score = 30
    /\ final_scores.grammar = 22
    /\ llm_result.vocabulary_score = 20
    /\ final_scores.vocabulary = 23

\* the scenario of C10: the family essay, the well-formed reply with 70, 20,
\* 20, 30, and three matches from the grammar service
C10_Scenario ==
    /\ pc = "scored"
    /\ essay = FamilyEssay
    /\ llm_outcome = [kind |-> "text", text |-> ReplyWith(<<70, 20, 20, 30>>)]
    /\ Get(grammar_outcome, "kind", "None") = "matches"
    /\ grammar_results.error_count = 3

\* C10 as claimed: the scenario gives grammar 17 and overall 65.
C10_Original ==
    C10_Scenario => result.grammar_score = 17 /\ result.overall_score = 65

\* C10 amended: the scenario gives grammar 17, vocabulary 23 (the essay has
\* 11 distinct words in 12, so the bonus of 3 applies) and overall
\* floor((17 + 23 + 30) * 0.98) = 68.
C10_FamilyScenario ==
    C10_Scenario =>
        /\ result.grammar_score = 17
        /\ result.vocabulary_score = 23
        /\ result.content_score = 30
        /\ result.overall_score = 68

\* C10 witness: the scenario has been graded
C10_Witness == C10_Scenario /\ result.word_count = 12

\* the rubric result the reply format with the scores q stands for
TemplateResult(q) ==
    [ overall_score |-> q[1], grammar_score |-> q[2],
      vocabulary_score |-> q[3], content_score |-> q[4],
      overall_feedback |-> <<"G", "o", "o", "d", ".">>,
      strengths |-> << <<"c", "l", "e", "a", "r">> >>,
      weaknesses |-> << <<"s", "h", "o", "r", "t">> >>,
      suggestions |-> << <<"r", "e", "a", "d">> >> ]

\* grade_essay is past _grade_with_llm, which returned
PastGradeWithLlm ==
    pc \in {"check_grammar", "analyze_vocabulary", "calculate_final_scores",
            "assemble", "scored"}

\* C11: when the completion service's reply is the reply format filled in
\* with four scores, an evaluation and one text per section, the rubric
\* result of the parser has exactly those four scores (85, 25, 24, 36 among
\* them), the text after the evaluation label as overall_feedback, and
\* exactly one entry, the text of the section line, in each of strengths,
\* weaknesses and suggestions.
C11_TemplateRoundTrip ==
    \A q \in ResponseScores :
        (PastGradeWithLlm /\ llm_outcome = [kind |-> "text", text |-> ReplyWith(q)])
            => /\ llm_result = TemplateResult(q)
               /\ Len(llm_result.strengths) = 1
               /\ Len(llm_result.weaknesses) = 1
               /\ Len(llm_result.suggestions) = 1

\* C11 witness: the reply with 85, 25, 24, 36 has been parsed
C11_Witness ==
    /\ pc = "check_grammar"
    /\ llm_outcome = [kind |-> "text", text |-> ReplyWith(<<85, 25, 24, 36>>)]
    /\ llm_result.overall_score = 85
    /\ llm_result.content_score = 36

\* the eight labels of the reply format
RecognizedLabels ==
    { LabelOverallScore, LabelGrammarScore, LabelVocabularyScore,
      LabelContentScore, LabelOverallFeedback, LabelStrengths,
      LabelWeaknesses, LabelSuggestions }

\* the line, trimmed as the loop trims it, starts with one of the labels
StartsWithLabel(rawline) == StartsWithAny(Strip(rawline), RecognizedLabels)

\* C12: when no line of the reply starts with one of the eight labels, the
\* parser's result has the four scores 0, an empty overall_feedback and
\* empty strengths, weaknesses and suggestions: that is the result of
\* _parse_llm_response on the whole reply, and the loop's result after the
\* last line.
C12_NoLabelEmptyResult ==
    (pc = "parser" /\ \A i \in 1..Len(lines_read) : ~StartsWithLabel(lines_read[i]))
        => /\ ParseLlmResponse(ResponseText) = EmptyParseResult
           /\ parse_state.result = EmptyParseResult

\* C12 witness: three lines without a label, plain text and a line that
\* begins like a numbered section among them
C12_Witness ==
    /\ pc = "parser"
    /\ lines_read = << <<" ", "o", "k", " ">>,
                       <<"1", ".", " ", "f", "i", "r", "s", "t">>,
                       <<"zong", "ti", "lai", "shuo", " ", "o", "k">> >>
    /\ parse_state.result = EmptyParseResult

\* text has the text part in it, as a run of consecutive characters
Embeds(text, part) ==
    \E i \in 1..(Len(text) - Len(part) + 1) :
        SubSeq(text, i, i + Len(part) - 1) = part

\* check_grammar has returned its dictionary
GrammarChecked == "error_count" \in DOMAIN grammar_results

\* C13: check_grammar(text, return_dict=True) never raises, whatever the
\* text.  When the grader has no grammar service it returns no errors, the
\* count 0 and the fixed "disabled" message, and the service is not called;
\* when the service's call raises it returns no errors, the count 0 and a
\* message that has the exception's message in it.
C13_GrammarNeverRaises ==
    /\ pc # "raised"
    /\ (pc = "helpers" /\ GrammarChecked /\ grammar_tool = "None")
         => /\ grammar_results = [errors |-> <<>>, error_count |-> 0,
                                  message |-> MsgGrammarDisabled]
            /\ calls.grammar = 0
    /\ (pc = "helpers" /\ GrammarChecked /\ grammar_tool # "None"
          /\ grammar_outcome.kind = "raise")
         => /\ grammar_results.errors = <<>>
            /\ grammar_results.error_count = 0
            /\ Embeds(grammar_results.message, grammar_outcome.message)
            /\ grammar_results.message # MsgGrammarDisabled

\* C13 witness: the service raised on a blank text and the dictionary came
\* back
C13_Witness ==
    /\ pc = "helpers"
    /\ essay = <<" ", "\n">>
    /\ GrammarChecked
    /\ grammar_tool = "LanguageTool"
    /\ grammar_outcome.kind = "raise"
    /\ Embeds(grammar_results.message, <<"connection refused">>)

\* C14: when the grammar service returns a list of n matches, the grammar
\* report has error_count = n and an errors list of min(n, 10) records, the
\* i-th one made of the i-th match (its message, its first replacement or
\* the empty text, its context, offset and length); the errors list never
\* has more than 10 entries.
C14_FirstTenMatches ==
    /\ GrammarChecked => Len(grammar_results.errors) <= 10
    /\ (pc = "helpers" /\ GrammarChecked /\ grammar_tool # "None"
          /\ grammar_outcome.kind = "matches")
         => LET matches == grammar_outcome.matches
                n == Len(matches)
                errors == grammar_results.errors
            IN  /\ grammar_results.error_count = n
                /\ Len(errors) = (IF n <= 10 THEN n ELSE 10)
                /\ \A i \in 1..Len(errors) :
                     /\ errors[i].error = matches[i].message
                     /\ errors[i].suggestion =
                          (IF Len(matches[i].replacements) > 0
                           THEN matches[i].replacements[1] ELSE <<>>)
                     /\ errors[i].context = matches[i].context
                     /\ errors[i].offset = matches[i].offset
                     /\ errors[i].length = matches[i].errorLength

\* C14 witness: 12 matches, 10 records, the tenth of the tenth match
C14_Witness ==
    /\ pc = "helpers"
    /\ GrammarChecked
    /\ grammar_tool # "None"
    /\ grammar_outcome.kind = "matches"
    /\ Len(grammar_outcome.matches) = 12
    /\ grammar_results.error_count = 12
    /\ Len(grammar_results.errors) = 10
    /\ grammar_results.errors[10].offset = 9

\* C15: when the grader has no grammar service, or the service's call
\* raised, the report of grade_essay lists no grammar errors and its
\* grammar_score is the rubric result's grammar_score, the parser's or the
\* default one's, without a penalty.
C15_NoGrammarNoPenalty ==
    (pc = "scored" /\ (grammar_tool = "None" \/ grammar_outcome.kind = "raise"))
        => /\ result.grammar_errors = <<>>
           /\ result.grammar_score = llm_result.grammar_score

\* C15 witness: the service raised, the rubric said 25, the report says 25
C15_Witness ==
    /\ pc = "scored"
    /\ grammar_tool = "LanguageTool"
    /\ grammar_outcome.kind = "raise"
    /\ llm_result.grammar_score = 25
    /\ result.grammar_score = 25
    /\ result.grammar_errors = <<>>

\* analyze_vocabulary has returned its dictionary
VocabularyAnalyzed == "word_count" \in DOMAIN vocabulary_results

\* C16: for the empty text and for every text of whitespace only,
\* analyze_vocabulary(text, return_dict=True) returns word_count = 0,
\* lexical_diversity = 0 and the feedback "empty text".
C16_BlankTextSentinel ==
    (pc = "helpers" /\ VocabularyAnalyzed /\ \A i \in 1..Len(essay) : IsSpace(essay[i]))
        => /\ vocabulary_results.word_count = 0
           /\ vocabulary_results.lexical_diversity = 0
           /\ vocabulary_results.feedback = MsgEmptyText

\* C16 witness: a tab and a line feed have been analyzed
C16_Witness ==
    /\ pc = "helpers"
    /\ essay = <<"\t", "\n">>
    /\ VocabularyAnalyzed
    /\ vocabulary_results.feedback = MsgEmptyText

\* C17: whatever the reply, the parser's result has 0 <= overall_score <=
\* 100, 0 <= grammar_score <= 30, 0 <= vocabulary_score <= 30 and
\* 0 <= content_score <= 40, and its strengths, weaknesses and suggestions
\* are lists.
C17_ScoresInRange ==
    pc = "parser" =>
        LET r == ParseLlmResponse(ResponseText) IN
        /\ r.overall_score \in 0..100
        /\ r.grammar_score \in 0..30
        /\ r.vocabulary_score \in 0..30
        /\ r.content_score \in 0..40
        /\ \A section \in {"strengths", "weaknesses", "suggestions"} :
             DOMAIN r[section] = 1..Len(r[section])

\* C17, the reply that breaks it: the one line "yu fa de fen: 45/30" gives
\* grammar_score = 45
C17_Witness ==
    /\ pc = "parser"
    /\ lines_read = << LabelGrammarScore \o <<" ", "4", "5", "/", "3", "0">> >>
    /\ ParseLlmResponse(ResponseText).grammar_score = 45
    /\ parse_state.result.grammar_score = 45

\* the line, trimmed, starts with one of the four score labels
IsScoreLine(rawline) ==
    StartsWithAny(Strip(rawline),
                  { LabelOverallScore, LabelGrammarScore,
                    LabelVocabularyScore, LabelContentScore })

\* the line, trimmed, starts with one of the three section labels
IsSectionLine(rawline) ==
    StartsWithAny(Strip(rawline),
                  {LabelStrengths, LabelWeaknesses, LabelSuggestions})

\* result and current_section after the first k of the lines read
ScanAfter(k) == ParseLines(ParseStart, SubSeq(lines_read, 1, k))

\* C18: when a score line is read while a section is active, the active
\* section becomes none, and no line without a label that follows the score
\* line is appended to a list before the next section line.
C18_ScoreLineResets ==
    pc = "parser" =>
        \A i \in 1..Len(lines_read) :
            (ScanAfter(i - 1).current_section # "None" /\ IsScoreLine(lines_read[i]))
                => /\ ScanAfter(i).current_section = "None"
                   /\ \A j \in (i + 1)..Len(lines_read) :
                        ( /\ ~StartsWithLabel(lines_read[j])
                          /\ \A k \in (i + 1)..j : ~IsSectionLine(lines_read[k]) )
                            => ScanAfter(j).result = ScanAfter(j - 1).result

\* C18, the reply that breaks it: after "1. you dian: clear" and a grammar
\* score line, the line " ok " is a second strength
C18_Witness ==
    /\ pc = "parser"
    /\ lines_read = << LabelStrengths \o <<" ", "c", "l", "e", "a", "r">>,
                       LabelGrammarScore \o <<" ", "2", "5", "/", "3", "0">>,
                       <<" ", "o", "k", " ">> >>
    /\ prev_state.current_section = "strengths"
    /\ parse_state.result.grammar_score = 25
    /\ parse_state.result.strengths = << <<"c", "l", "e", "a", "r">>, <<"o", "k">> >>

\* the last line read, trimmed as the loop trims it
LastLine == Strip(lines_read[Len(lines_read)])

\* a line has been read while a section was active
ReadInSection ==
    /\ pc = "parser"
    /\ lines_read # <<>>
    /\ prev_state.current_section # "None"

\* the last line was appended to the section that was active, which stays
\* active, and nothing else of the result changed
LastLineAppended ==
    /\ parse_state.current_section = prev_state.current_section
    /\ parse_state.result =
         [ prev_state.result EXCEPT ![prev_state.current_section] =
                                        Append(@, LastLine) ]

\* C19 as stated: while a section is active a blank line changes nothing,
\* and every other line that does not start with one of the eight labels is
\* appended to the active section's list, which stays active.
C19_Original ==
    ReadInSection =>
        /\ LastLine = <<>> => parse_state = prev_state
        /\ (LastLine # <<>> /\ ~StartsWithLabel(LastLine)) => LastLineAppended

\* C19: while a section is active, a blank line leaves it active and adds
\* no entry; a line that is not blank and begins with none of "1.", "2.",
\* "3.", "zong ti", "yu fa", "ci hui", "nei rong" is appended at the end of
\* the active section's list and leaves the section active; a line that
\* begins with one of those seven without starting with one of the eight
\* labels is appended to no list and resets the active section to none.
C19_Continuation ==
    ReadInSection =>
        LET breaks == \E p \in { <<"1", ".">>, <<"2", ".">>, <<"3", ".">>,
                                 <<"zong", "ti">>, <<"yu", "fa">>,
                                 <<"ci", "hui">>, <<"nei", "rong">> } :
                          StartsWith(LastLine, p)
        IN  /\ LastLine = <<>> => parse_state = prev_state
            /\ (LastLine # <<>> /\ ~breaks) => LastLineAppended
            /\ (breaks /\ ~StartsWithLabel(LastLine))
                 => /\ parse_state.result = prev_state.result
                    /\ parse_state.current_section = "None"

\* C19 witness: after a section line and a blank line, "1. first" has been
\* read: it is no entry and the section is no longer active
C19_Witness ==
    /\ ReadInSection
    /\ lines_read = << LabelWeaknesses \o <<" ", "s", "h", "o", "r", "t">>,
                       <<" ">>,
                       <<"1", ".", " ", "f", "i", "r", "s", "t">> >>
    /\ parse_state.result.weaknesses = << <<"s", "h", "o", "r", "t">> >>
    /\ parse_state.current_section = "None"

\* C20: for a reply made of the eight lines of the reply format, each once,
\* the parser's result is the same in whatever order the lines are read:
\* the four scores of the score lines, the evaluation, and the one text of
\* each section line as the single entry of its list.
C20_AnyOrder ==
    (pc = "parser" /\ "scores" \in DOMAIN llm_outcome /\ remaining = {})
        => parse_state.result = TemplateResult(llm_outcome.scores)

\* C20 witness: the eight lines have been read, the three section lines
\* before the score lines, and the overall score line last
C20_Witness ==
    /\ pc = "parser"
    /\ "scores" \in DOMAIN llm_outcome
    /\ remaining = {}
    /\ llm_outcome.scores = <<85, 25, 24, 36>>
    /\ prev_state.current_section = "strengths"
    /\ prev_state.result.overall_score = 0
    /\ prev_state.result.grammar_score = 25
    /\ parse_state.result.overall_score = 85

\* the feedback sentences joined by one space
Sentences(parts) == JoinWith(parts, <<" ">>)

\* the report of the text with the counts word_stats has been built
VocabularyReported == pc = "lexical" /\ calls.lexical = 1

\* the length sentence and the diversity sentence of the counts word_stats
LengthSentence ==
    IF word_stats.word_count < 30 THEN MsgEssayShort
    ELSE IF word_stats.word_count <= 200 THEN MsgEssayLengthFine
    ELSE MsgEssayRich

DiversitySentence ==
    IF 10 * word_stats.unique_count < 4 * word_stats.word_count THEN MsgRepetitive
    ELSE IF 10 * word_stats.unique_count <= 7 * word_stats.word_count THEN MsgDiversityFair
    ELSE MsgDiverse

\* C21 as stated: the "good advanced vocabulary" sentence is there when
\* advanced_ratio >= 0.3, at exactly 0.3 too.
C21_Original ==
    VocabularyReported =>
        vocabulary_results.feedback =
            Sentences(<<LengthSentence, DiversitySentence>>
                      \o (IF 10 * word_stats.advanced_count < word_stats.unique_count
                          THEN <<MsgUseAdvanced>>
                          ELSE IF 10 * word_stats.advanced_count >= 3 * word_stats.unique_count
                          THEN <<MsgAdvancedGood>>
                          ELSE <<>>))

\* C21: for a text of at least one word the feedback is, in this order and
\* joined by spaces, one length sentence (word_count < 30, 30..200, > 200),
\* one diversity sentence (unique / words < 0.4, 0.4..0.7, > 0.7) and at
\* most one sentence on advanced words: "use more advanced words" when
\* advanced / unique < 0.1, "good advanced vocabulary" when it is > 0.3 (not
\* at 0.3 itself), none from 0.1 to 0.3.  The feedback is a function of the
\* three counts, so the same text gives the same feedback.
C21_FeedbackSentences ==
    VocabularyReported =>
        vocabulary_results.feedback =
            Sentences(<<LengthSentence, DiversitySentence>>
                      \o (IF 10 * word_stats.advanced_count < word_stats.unique_count
                          THEN <<MsgUseAdvanced>>
                          ELSE IF 10 * word_stats.advanced_count > 3 * word_stats.unique_count
                          THEN <<MsgAdvancedGood>>
                          ELSE <<>>))

\* C21 witness: 10 words, all distinct, 3 of them advanced: the ratio is
\* 0.3 and there is no sentence on advanced words
C21_Witness ==
    /\ VocabularyReported
    /\ word_stats = [word_count |-> 10, unique_count |-> 10, advanced_count |-> 3]
    /\ vocabulary_results.feedback = Sentences(<<MsgEssayShort, MsgDiverse>>)

\* the places of a text where a word begins: a character that is no
\* whitespace, at the start of the text or after whitespace
WordStarts(text) ==
    { i \in 1..Len(text) :
        ~IsSpace(text[i]) /\ (i = 1 \/ IsSpace(text[i - 1])) }

\* the word that begins at place i: up to the next whitespace or the end
WordAt(text, i) ==
    LET ends == { j \in i..Len(text) :
                    /\ \A k \in i..j : ~IsSpace(text[k])
                    /\ (j = Len(text) \/ IsSpace(text[j + 1])) }
    IN  SubSeq(text, i, CHOOSE j \in ends : TRUE)

\* the distinct words of a text, case set aside
DistinctWords(text) == { Lower(WordAt(text, i)) : i \in WordStarts(text) }

C23_ReportAssembled ==
    pc = "scored" =>
        /\ result.overall_score = first_call.scores.overall
        /\ result.grammar_score = first_call.scores.grammar
        /\ result.vocabulary_score = first_call.scores.vocabulary
        /\ result.content_score = first_call.scores.content
        /\ first_call.llm_result = llm_result
        /\ first_call.grammar_results = grammar_results
        /\ first_call.vocabulary_results = vocabulary_results
        /\ calls.reconciler = 1
        /\ result.overall_feedback = llm_result.overall_feedback
        /\ result.strengths = llm_result.strengths
        /\ result.weaknesses = llm_result.weaknesses
        /\ result.suggestions = llm_result.suggestions
        /\ result.grammar_errors = grammar_results.errors
        /\ Len(result.grammar_errors) <= 10
        /\ result.vocabulary_feedback = vocabulary_results.feedback
        /\ result.word_count = Cardinality(WordStarts(essay))
        /\ result.word_count = vocabulary_results.word_count
        /\ result.character_count = Len(essay)
        /\ result.essay = essay

\* C23 witness: an essay with whitespace around it has been graded: 13
\* characters, 2 words, 10 of 12 grammar errors listed
C23_Witness ==
    /\ pc = "scored"
    /\ essay = <<" ", "h", "a", "p", "p", "y", " ", "h", "a", "p", "p", "y", "\n">>
    /\ result.essay = essay
    /\ result.character_count = 13
    /\ result.word_count = 2
    /\ Len(grammar_results.errors) = 10
    /\ result.grammar_errors = grammar_results.errors

\* C24: the reconciler is called only when the rubric result, the grammar
\* report and the vocabulary report are all there, and whatever the order
\* in which the three analyses returned, the report is the one grade_essay
\* returns for the essay, the prompt and the outcomes of the two services.
C24_OrderOfAnalyses ==
    /\ (pc \in {"calculate_final_scores", "assemble", "scored"} \/ calls.reconciler > 0)
         => /\ ToSet(analyses_done) = {"llm", "grammar", "vocabulary"}
            /\ "overall_score" \in DOMAIN llm_result
            /\ GrammarChecked
            /\ VocabularyAnalyzed
    /\ pc = "scored"
         => result = ReportOf(grammar_tool, essay, prompt_info, llm_outcome,
                              grammar_outcome)

\* C24 witness: the lexical analysis returned first, the rubric judgment
\* last, and the report of the scenario is the one of grade_essay's order:
\* grammar 17, vocabulary 23, overall 68
C24_Witness ==
    /\ pc = "scored"
    /\ analyses_done = <<"vocabulary", "grammar", "llm">>
    /\ essay = FamilyEssay
    /\ llm_outcome = [kind |-> "text", text |-> ReplyWith(<<70, 20, 20, 30>>)]
    /\ grammar_results.error_count = 3
    /\ result.grammar_score = 17
    /\ result.vocabulary_score = 23
    /\ result.overall_score = 68

\* each call that has returned has returned the report of its own essay,
\* prompt and service outcomes, whatever the other call has done meanwhile
EachCallAsAlone ==
    /\ pc # "raised"
    /\ pc \in Terminal
         => result = ReportOf(grammar_tool, essay, prompt_info, llm_outcome,
                              grammar_outcome)
    /\ other_call.pc # "raised"
    /\ other_call.pc \in Terminal
         => other_call.result =
              ReportOf(grammar_tool, other_call.essay, other_call.prompt_info,
                       other_call.llm_outcome, other_call.grammar_outcome)

\* C25: two calls of grade_essay on one grader, their steps interleaved in
\* any way, each return the report the call returns when it runs alone; no
\* step of either call writes the grader's field, and a step of one call
\* leaves the locals of the other as they are.
C25_CallsIndependent ==
    /\ []EachCallAsAlone
    /\ [][ /\ grammar_tool' = grammar_tool
           /\ (other_call' # other_call) =>
                << essay, prompt_info, pc, llm_result, grammar_results,
                   vocabulary_results, final_scores, result >>' =
                << essay, prompt_info, pc, llm_result, grammar_results,
                   vocabulary_results, final_scores, result >> ]_vars

\* C25 witness: both calls have returned, the first after the second had
\* started and before it ended, with different reports
C25_Witness ==
    /\ pc = "scored"
    /\ other_call.pc = "scored"
    /\ essay = TenCharEssay
    /\ other_call.essay = ThreeOfFiveEssay
    /\ llm_outcome.kind = "text"
    /\ other_call.llm_outcome.kind = "raise"
    /\ grammar_results.error_count = 0
    /\ other_call.grammar_results.error_count = 11
    /\ result.prompt_title = <<"My Family">>
    /\ other_call.result.prompt_title = <<"Unknown">>
    /\ other_call.result.grammar_score = 12

(***************************************************************************)
(* The returned report on both paths of grade_essay.                       *)
(***************************************************************************)
\* grade_essay has returned a report, from the fast path or the normal path
ReportReturned == pc \in {"too_short", "scored"}

\* the keys of the dictionary the normal path returns
ReportFields ==
    { "essay", "prompt_title", "overall_score", "grammar_score",
      "vocabulary_score", "content_score", "overall_feedback",
      "grammar_errors", "vocabulary_feedback", "suggestions", "strengths",
      "weaknesses", "word_count", "character_count" }

\* C26 as claimed: every report grade_essay returns has the same set of
\* fields, the fourteen of the normal path, on the too-short fast path as on
\* the normal path; essay, prompt_title and vocabulary_feedback are in both.
C26_SameFields ==
    ReportReturned =>
        /\ DOMAIN result = ReportFields
        /\ {"essay", "prompt_title", "vocabulary_feedback"} \subseteq DOMAIN result

\* C26 witness: the fast path has returned a report of eleven fields, without
\* essay, prompt_title and vocabulary_feedback
C26_Witness ==
    /\ pc = "too_short"
    /\ essay = NineCharEssay
    /\ DOMAIN result =
         ReportFields \ {"essay", "prompt_title", "vocabulary_feedback"}

\* C28 as claimed: whatever the completion service replies, whatever the
\* grammar service does and whatever the essay, the returned report has
\* grammar_score and vocabulary_score within 0..30, content_score within 0..40
\* and overall_score within 0..100.
C28_ReportScoresInRange ==
    ReportReturned =>
        /\ result.grammar_score \in 0..30
        /\ result.vocabulary_score \in 0..30
        /\ result.content_score \in 0..40
        /\ result.overall_score \in 0..100

\* C28 witness: the reply scored 45/30, 31/30 and 50/40, and the report of a
\* graded essay carries a content score of 50 and an overall score above 100
C28_Witness ==
    /\ pc = "scored"
    /\ llm_result.grammar_score = 45
    /\ llm_result.vocabulary_score = 31
    /\ result.content_score = 50
    /\ result.grammar_score > 30
    /\ result.overall_score > 100

\* C29 as claimed: in every returned report word_count is the number of
\* whitespace-separated words of the submitted essay and character_count is
\* its length, on the fast path of an essay under 10 trimmed characters too.
C29_CountsOfEssay ==
    ReportReturned =>
        /\ result.word_count = Cardinality(WordStarts(essay))
        /\ result.word_count = Len(SplitWhitespace(essay))
        /\ result.character_count = Len(essay)

\* C29 witness: an essay of three words and eleven characters, nine of them
\* after trimming, is reported with no words and no characters
C29_Witness ==
    /\ pc = "too_short"
    /\ essay = NineCharEssay
    /\ Len(SplitWhitespace(essay)) = 3
    /\ Len(essay) = 11
    /\ result.word_count = 0
    /\ result.character_count = 0

\* C27 as claimed: the vocabulary adjustment follows the exact ratio
\* unique_words / word_count of the essay: 5 is taken off (floored at 0)
\* exactly when the ratio is below 0.3, 3 is added (capped at 30) exactly when
\* it is above 0.6, whatever the rounding of lexical_diversity in the report.
C27_ExactRatioDecides ==
    calls.reconciler >= 1 =>
        LET v == first_call.llm_result.vocabulary_score
            w == first_call.vocabulary_results.word_count
            u == first_call.vocabulary_results.unique_words
        IN  w > 0 =>
              first_call.scores.vocabulary =
                IF 10 * u < 3 * w THEN Max(0, v - 5)
                ELSE IF 10 * u > 6 * w THEN Min(30, v + 3)
                ELSE v

\* C27 witness: 200 unique words out of 667, a ratio below 0.3 that the
\* report rounds to 0.300, keep the base vocabulary score of 20
C27_Witness ==
    /\ calls.reconciler >= 1
    /\ first_call.vocabulary_results.word_count = 667
    /\ first_call.vocabulary_results.unique_words = 200
    /\ first_call.vocabulary_results.lexical_diversity = 300
    /\ first_call.llm_result.vocabulary_score = 20
    /\ first_call.scores.vocabulary = 20

\* the constructor of the workflow has returned
WorkflowConstructed == pc = "workflow" /\ workflow.pc = "ready"

\* _initialize_agent is running
InInitializeAgent ==
    pc = "workflow" /\ workflow.pc \in {"pull", "create", "executor", "except"}

\* C30 as claimed: once the workflow is constructed, if hub.pull and
\* create_react_agent both succeeded then agent_executor is set, so that every
\* query of run_agent_conversation goes to the executor; and while
\* _initialize_agent runs, tools and memory are already assigned.
C30_ExecutorAfterConstruction ==
    /\ (WorkflowConstructed /\ workflow.pulled = "ok" /\ workflow.created = "ok") =>
          /\ workflow.attrs.agent_executor # "None"
          /\ \A i \in 1..Len(workflow.asked) :
                /\ workflow.asked[i].invoked
                /\ workflow.asked[i].reply # MsgAgentNotInitialized
    /\ InInitializeAgent =>
          /\ workflow.attrs.tools # Unassigned
          /\ workflow.attrs.memory # Unassigned

\* C30 witness: the prompt was pulled and the agent created, the workflow is
\* constructed with agent_executor None, and a query was answered with the
\* message that the agent is not initialized
C30_Witness ==
    /\ WorkflowConstructed
    /\ workflow.pulled = "ok"
    /\ workflow.created = "ok"
    /\ workflow.attrs.agent = "agent"
    /\ workflow.attrs.agent_executor = "None"
    /\ workflow.attrs.memory = "ConversationBufferMemory"
    /\ Len(workflow.asked) >= 1
    /\ workflow.asked[1].query = <<"hello">>
    /\ ~workflow.asked[1].invoked
    /\ workflow.asked[1].reply = MsgAgentNotInitialized

=============================================================================
